---- MODULE Spec2Model ----
(***************************************************************************)
(* Import reconciliation of keepercommander/imp_exp.py: _import and its    *)
(* stages prepare_shared_folder_add, prepare_folder_add,                   *)
(* prepare_record_add, prepare_record_link, prepare_record_permission and  *)
(* execute_batch, run against a remote vault.                              *)
(*                                                                         *)
(* Representation.  A uid is a positive integer, '' and None are NoUid.    *)
(* A symmetric key is a positive integer, None is NoKey.  A Python dict    *)
(* (folder_cache, record_cache, ...) is a sequence of entries in insertion *)
(* order, which is the order a for loop over the dict visits them.  A      *)
(* request is a record; an optional key that the code leaves out carries   *)
(* NoUid or NoKey.  A hashlib.md5 digest is the string it digests (md5 is  *)
(* taken as collision free); the digested string is built as the code      *)
(* builds it.                                                              *)
(***************************************************************************)
EXTENDS Integers, Sequences, FiniteSets, TLC

VARIABLES
    server,      \* the remote vault
    cache,       \* params: folder_cache, shared_folder_cache, record_cache, subfolder_record_cache
    teams,       \* params.team_cache
    directory,   \* the public_keys service: email -> public key (NoKey: none)
    folders,     \* _import: the ImportSharedFolder list
    records,     \* _import: the ImportRecord list
    stage,       \* _import: the stage being prepared or executed
    pc,          \* position inside the stage
    requests,    \* the list a prepare_* returned, execute_batch's argument
    queue,       \* execute_batch: queue
    fresh,       \* source of api.generate_record_uid() and os.urandom(32)
    faultsLeft,  \* remote responses that may still be other than a full result
    run,         \* number of the import run against this vault
    vault0,      \* history: the vault the first run started from
    sent,        \* history: every operation submitted, in order
    trace,       \* history: one entry per remote call and refresh
    kwargs,      \* password-report: the parsed command line
    report,      \* password-report: what execute did
    auth,        \* ThycoticAuth: access_token, expires_in, refresh_token, last_login
    clock,       \* datetime.datetime.now().timestamp(), in seconds
    headers      \* ThycoticAuth: the bearer token of the headers of the running call

importVars == <<server, cache, teams, directory, folders, records, stage, pc,
                requests, queue, fresh, faultsLeft, run, vault0, sent, trace>>

authVars == <<auth, clock, headers>>

vars == <<importVars, kwargs, report, authVars>>

----------------------------------------------------------------------------
(* Values *)

NoUid == 0
NoKey == 0
DataKey == 1

RootFolderType == "/"
UserFolderType == "user_folder"
SharedFolderType == "shared_folder"
SharedFolderFolderType == "shared_folder_folder"

SharedTypes == {SharedFolderType, SharedFolderFolderType}

Range(s) == {s[i] : i \in DOMAIN s}

\* str.lower() on the names the model uses
Lower(name) ==
    CASE name = "A" -> "a"
      [] name = "B" -> "b"
      [] name = "Bob@x" -> "bob@x"
      [] name = "Me@x" -> "me@x"
      [] name = "Ops" -> "ops"
      [] OTHER -> name

\* email.utils.parseaddr(name)[1] on the names the model uses: the address
\* part, which a bare word is too; '' only for a name that holds no address
parseaddr(name) ==
    CASE name = "" -> ""
      [] name = "@" -> ""
      [] OTHER -> name

\* api.encrypt_aes(plain, key): only the holder of key reads plain
encrypt_aes(plain, key) == [alg |-> "aes", plain |-> plain, key |-> key]

\* api.encrypt_rsa(plain, rsa_key)
encrypt_rsa(plain, key) == [alg |-> "rsa", plain |-> plain, key |-> key]

\* a request field the code leaves out where a wrapped key would stand
NoCipher == [alg |-> "none", plain |-> NoKey, key |-> NoKey]

\* the digest of the lower-cased name alone
FolderDigest_NameOnly(name, parent_uid) == <<Lower(name), NoUid>>

\* md5 of '{0}|{1}'.format(name.lower(), parent_uid): a uid holds no '|', so
\* the string determines the pair
FolderDigest(name, parent_uid) == <<Lower(name), parent_uid>>

\* md5 of '{0}|{1}|{2}'.format(title, login, password); the fields are
\* sequences of characters and may hold '|'
RecordDigest(title, login, password) ==
    title \o <<"|">> \o login \o <<"|">> \o password

----------------------------------------------------------------------------
(* The snapshot: lookups in params *)

InFolderCache(c, uid) == \E i \in DOMAIN c.folder_cache : c.folder_cache[i].uid = uid

FolderOf(c, uid) ==
    c.folder_cache[CHOOSE i \in DOMAIN c.folder_cache : c.folder_cache[i].uid = uid]

InSharedFolderCache(c, uid) ==
    \E i \in DOMAIN c.shared_folder_cache :
        c.shared_folder_cache[i].shared_folder_uid = uid

SharedFolderOf(c, uid) ==
    c.shared_folder_cache[CHOOSE i \in DOMAIN c.shared_folder_cache :
        c.shared_folder_cache[i].shared_folder_uid = uid]

InRecordCache(c, uid) == \E i \in DOMAIN c.record_cache : c.record_cache[i].record_uid = uid

RecordOf(c, uid) ==
    c.record_cache[CHOOSE i \in DOMAIN c.record_cache : c.record_cache[i].record_uid = uid]

\* the shared folder that owns a shared_folder or shared_folder_folder node
OwnerUid(f) == IF f.type = SharedFolderFolderType THEN f.shared_folder_uid ELSE f.uid

\* folder_hash with the cached names taken as they are spelled
BuildFolderHash_AsSpelled(c) ==
    LET fc == c.folder_cache
        Key(i) == <<fc[i].name, fc[i].parent_uid>>
        Last(d) == CHOOSE i \in DOMAIN fc :
                      Key(i) = d /\ \A j \in DOMAIN fc : Key(j) = d => j <= i
        SfKey(f) == IF f.type \in SharedTypes /\ InSharedFolderCache(c, OwnerUid(f))
                    THEN SharedFolderOf(c, OwnerUid(f)).shared_folder_key
                    ELSE NoKey
    IN [d \in {Key(i) : i \in DOMAIN fc} |->
            LET f == fc[Last(d)] IN <<f.uid, f.type, SfKey(f)>>]

\* folder_hash as prepare_shared_folder_add and prepare_folder_add build it:
\* digest -> (uid, type, shared folder key); a later folder of the same
\* digest replaces an earlier one
BuildFolderHash(c) ==
    LET fc == c.folder_cache
        Key(i) == FolderDigest(fc[i].name, fc[i].parent_uid)
        Last(d) == CHOOSE i \in DOMAIN fc :
                      Key(i) = d /\ \A j \in DOMAIN fc : Key(j) = d => j <= i
        SfKey(f) == IF f.type \in SharedTypes /\ InSharedFolderCache(c, OwnerUid(f))
                    THEN SharedFolderOf(c, OwnerUid(f)).shared_folder_key
                    ELSE NoKey
    IN [d \in {Key(i) : i \in DOMAIN fc} |->
            LET f == fc[Last(d)] IN <<f.uid, f.type, SfKey(f)>>]

----------------------------------------------------------------------------
(* prepare_folder_add *)

\* the type of a folder prepare_folder_add creates below a parent of type
\* parent_type
NewFolderType(parent_type, is_shared) ==
    IF parent_type \in {UserFolderType, RootFolderType}
    THEN (IF is_shared THEN SharedFolderType ELSE UserFolderType)
    ELSE SharedFolderFolderType

\* no folder_add names its parent
RequestParent_Never(parent_type, parent_uid) == NoUid

\* request['parent_uid'] of a folder_add of prepare_folder_add
RequestParent(parent_type, parent_uid) ==
    IF parent_type \notin {RootFolderType, SharedFolderType} THEN parent_uid ELSE NoUid

\* one segment of a declared folder: the body of the loop over comps
FolderAddStep(w, comp, is_last, is_domain) ==
    LET digest == FolderDigest(comp, w.parent_uid)
        is_shared == is_last /\ is_domain
        folder_uid == w.fresh
        folder_type == NewFolderType(w.parent_type, is_shared)
        in_shared == /\ folder_type = SharedFolderFolderType
                     /\ w.parent_shared_folder_uid # NoUid
                     /\ w.parent_shared_folder_key # NoKey
        encryption_key == IF in_shared THEN w.parent_shared_folder_key ELSE DataKey
        folder_key == w.fresh
        request == [command |-> "folder_add",
                    folder_uid |-> folder_uid,
                    folder_type |-> folder_type,
                    shared_folder_uid |-> IF in_shared THEN w.parent_shared_folder_uid
                                          ELSE NoUid,
                    key |-> encrypt_aes(folder_key, encryption_key),
                    parent_uid |-> RequestParent(w.parent_type, w.parent_uid),
                    data |-> encrypt_aes(comp, folder_key)]
        new_key == IF folder_type = SharedFolderType THEN folder_key
                   ELSE w.parent_shared_folder_key
        w1 == IF digest \notin DOMAIN w.folder_hash
              THEN [w EXCEPT !.folder_add = Append(@, request),
                             !.parent_uid = folder_uid,
                             !.parent_type = folder_type,
                             !.parent_shared_folder_key = new_key,
                             !.folder_hash = (digest :> <<folder_uid, folder_type, new_key>>) @@ @,
                             !.fresh = @ + 1]
              ELSE [w EXCEPT !.parent_uid = w.folder_hash[digest][1],
                             !.parent_type = w.folder_hash[digest][2],
                             !.parent_shared_folder_key = w.folder_hash[digest][3]]
    IN IF w1.parent_type = SharedFolderType
       THEN [w1 EXCEPT !.parent_shared_folder_uid = w1.parent_uid]
       ELSE w1

RECURSIVE FolderAddComps_SameUid(_, _, _, _)
\* the segments of one list all drawing the same uid
FolderAddComps_SameUid(w, comps, i, is_domain) ==
    IF i > Len(comps) THEN w
    ELSE LET w1 == FolderAddStep(w, comps[i], i = Len(comps), is_domain)
         IN FolderAddComps_SameUid([w1 EXCEPT !.fresh = w.fresh], comps, i + 1, is_domain)

RECURSIVE FolderAddComps(_, _, _, _)
\* for i in range(len(comps)), from segment i on
FolderAddComps(w, comps, i, is_domain) ==
    IF i > Len(comps) THEN w
    ELSE FolderAddComps(FolderAddStep(w, comps[i], i = Len(comps), is_domain),
                        comps, i + 1, is_domain)

\* one declared folder walked path first
FolderAddFolder_PathFirst(w, fol) ==
    LET w0 == [w EXCEPT !.parent_uid = NoUid,
                        !.parent_shared_folder_uid = NoUid,
                        !.parent_shared_folder_key = NoKey,
                        !.parent_type = RootFolderType]
        w1 == FolderAddComps(w0, fol.path, 1, FALSE)
    IN FolderAddComps(w1, fol.domain, 1, TRUE)

\* one declared folder: the domain's segments, then the path's; the walk ends
\* with fol.uid = parent_uid
FolderAddFolder(w, fol) ==
    LET w0 == [w EXCEPT !.parent_uid = NoUid,
                        !.parent_shared_folder_uid = NoUid,
                        !.parent_shared_folder_key = NoKey,
                        !.parent_type = RootFolderType]
        w1 == FolderAddComps(w0, fol.domain, 1, TRUE)
    IN FolderAddComps(w1, fol.path, 1, FALSE)

RECURSIVE FolderAddFolders(_, _, _)
\* for fol in rec.folders, from folder j on; returns the walk state and the
\* folders with their uid set
FolderAddFolders(w, fols, j) ==
    IF j > Len(fols) THEN [w |-> w, folders |-> fols]
    ELSE LET w1 == FolderAddFolder(w, fols[j])
         IN FolderAddFolders(w1, [fols EXCEPT ![j].uid = w1.parent_uid], j + 1)

RECURSIVE FolderAddRecords_HashPerRecord(_, _, _)
\* for rec in records with folder_hash as it was before the record's walk
FolderAddRecords_HashPerRecord(w, recs, r) ==
    IF r > Len(recs) THEN [w |-> w, records |-> recs]
    ELSE LET res == FolderAddFolders(w, recs[r].folders, 1)
         IN FolderAddRecords_HashPerRecord([res.w EXCEPT !.folder_hash = w.folder_hash],
                                           [recs EXCEPT ![r].folders = res.folders], r + 1)

RECURSIVE FolderAddRecords(_, _, _)
\* for rec in records, from record r on
FolderAddRecords(w, recs, r) ==
    IF r > Len(recs) THEN [w |-> w, records |-> recs]
    ELSE LET res == FolderAddFolders(w, recs[r].folders, 1)
         IN FolderAddRecords(res.w, [recs EXCEPT ![r].folders = res.folders], r + 1)

\* prepare_folder_add(params, records): the folder_add list, the records with
\* every folder's uid assigned, and the uid source
prepare_folder_add(c, recs, fr) ==
    LET w == [folder_hash |-> BuildFolderHash(c),
              folder_add |-> <<>>,
              fresh |-> fr,
              parent_uid |-> NoUid,
              parent_shared_folder_uid |-> NoUid,
              parent_shared_folder_key |-> NoKey,
              parent_type |-> RootFolderType]
        res == FolderAddRecords(w, recs, 1)
    IN [requests |-> res.w.folder_add, records |-> res.records, fresh |-> res.w.fresh]

----------------------------------------------------------------------------
(* prepare_record_add *)

\* record_hash with the password of the cached records left out of the key
BuildRecordHash_NoPassword(c) ==
    LET rc == c.record_cache
        Key(i) == rc[i].title \o <<"|">> \o rc[i].login \o <<"|">>
        Last(d) == CHOOSE i \in DOMAIN rc :
                      Key(i) = d /\ \A j \in DOMAIN rc : Key(j) = d => j <= i
    IN [d \in {Key(i) : i \in DOMAIN rc} |-> rc[Last(d)].record_uid]

\* record_hash: digest -> uid of the last record of record_cache with it
BuildRecordHash(c) ==
    LET rc == c.record_cache
        Key(i) == RecordDigest(rc[i].title, rc[i].login, rc[i].password)
        Last(d) == CHOOSE i \in DOMAIN rc :
                      Key(i) = d /\ \A j \in DOMAIN rc : Key(j) = d => j <= i
    IN [d \in {Key(i) : i \in DOMAIN rc} |-> rc[Last(d)].record_uid]

RECURSIVE RecordTeam(_, _)
\* for team in sf['teams']: req['team_uid'] = team['team_uid'], leaving the
\* loop at the first team that can manage records
RecordTeam(tms, i) ==
    IF i > Len(tms) THEN NoUid
    ELSE IF tms[i].manage_records \/ i = Len(tms) THEN tms[i].team_uid
    ELSE RecordTeam(tms, i + 1)

\* the record_add naming the declared folder whether or not the snapshot
\* holds it
RecordAddRequest_Unchecked(c, rec, record_uid, record_key) ==
    LET folder_uid == IF Len(rec.folders) > 0 THEN rec.folders[1].uid ELSE NoUid
        known == folder_uid # NoUid /\ InFolderCache(c, folder_uid)
        folder == FolderOf(c, folder_uid)
        shared == known /\ folder.type \in SharedTypes
        sh_uid == OwnerUid(folder)
        raised == shared /\ ~InSharedFolderCache(c, sh_uid)
        sf == SharedFolderOf(c, sh_uid)
        data == [title |-> rec.title, secret1 |-> rec.login, secret2 |-> rec.password]
    IN [raised |-> raised,
        req |-> [command |-> "record_add",
                 record_uid |-> record_uid,
                 record_key |-> encrypt_aes(record_key, DataKey),
                 folder_type |-> IF shared /\ ~raised THEN folder.type ELSE UserFolderType,
                 folder_uid |-> folder_uid,
                 folder_key |-> IF shared /\ ~raised
                                THEN encrypt_aes(record_key, sf.shared_folder_key)
                                ELSE NoCipher,
                 team_uid |-> IF shared /\ ~raised /\ ~sf.has_key_type
                              THEN RecordTeam(sf.teams, 1) ELSE NoUid,
                 data |-> encrypt_aes(data, record_key)]]

\* the record_add request of a record with no match in record_hash;
\* raised: params.shared_folder_cache[sh_uid] is a KeyError
RecordAddRequest(c, rec, record_uid, record_key) ==
    LET folder_uid == IF Len(rec.folders) > 0 THEN rec.folders[1].uid ELSE NoUid
        known == folder_uid # NoUid /\ InFolderCache(c, folder_uid)
        folder == FolderOf(c, folder_uid)
        shared == known /\ folder.type \in SharedTypes
        sh_uid == OwnerUid(folder)
        raised == shared /\ ~InSharedFolderCache(c, sh_uid)
        sf == SharedFolderOf(c, sh_uid)
        data == [title |-> rec.title, secret1 |-> rec.login, secret2 |-> rec.password]
    IN [raised |-> raised,
        req |-> [command |-> "record_add",
                 record_uid |-> record_uid,
                 record_key |-> encrypt_aes(record_key, DataKey),
                 folder_type |-> IF shared /\ ~raised THEN folder.type ELSE UserFolderType,
                 folder_uid |-> IF known /\ (shared \/ folder.type # RootFolderType)
                                THEN folder.uid ELSE NoUid,
                 folder_key |-> IF shared /\ ~raised
                                THEN encrypt_aes(record_key, sf.shared_folder_key)
                                ELSE NoCipher,
                 team_uid |-> IF shared /\ ~raised /\ ~sf.has_key_type
                              THEN RecordTeam(sf.teams, 1) ELSE NoUid,
                 data |-> encrypt_aes(data, record_key)]]

RECURSIVE RecordAddRecords(_, _, _, _)
\* for rec in records, from record r on; a.record_hash is never extended
RecordAddRecords(c, a, recs, r) ==
    IF r > Len(recs) \/ a.raised THEN [a EXCEPT !.records = recs]
    ELSE LET rec == recs[r]
             rec_hash == RecordDigest(rec.title, rec.login, rec.password)
         IN IF rec_hash \in DOMAIN a.record_hash
            THEN RecordAddRecords(c, a,
                     [recs EXCEPT ![r].uid = a.record_hash[rec_hash]], r + 1)
            ELSE LET made == RecordAddRequest(c, rec, a.fresh, a.fresh)
                 IN IF made.raised
                    THEN RecordAddRecords(c, [a EXCEPT !.raised = TRUE], recs, r)
                    ELSE RecordAddRecords(c,
                             [a EXCEPT !.requests = Append(@, made.req),
                                       !.fresh = @ + 1],
                             [recs EXCEPT ![r].uid = a.fresh], r + 1)

\* prepare_record_add(params, records)
prepare_record_add(c, recs, fr) ==
    RecordAddRecords(c, [record_hash |-> BuildRecordHash(c), requests |-> <<>>,
                         fresh |-> fr, raised |-> FALSE, records |-> recs],
                     recs, 1)

----------------------------------------------------------------------------
(* prepare_record_link *)

\* subfolder.find_folders(params, record_uid): the folders of the snapshot
\* that hold the record, the root left out
find_folders(c, record_uid) ==
    LET held == SelectSeq(c.subfolder_record_cache,
                          LAMBDA l : l.record_uid = record_uid /\ l.folder_uid # NoUid)
    IN [i \in DOMAIN held |-> held[i].folder_uid]

\* the type a move request names for a folder
MoveType(f) == IF f.type # RootFolderType THEN f.type ELSE UserFolderType

\* the record key wrapped again for every shared destination
TransitionKey_EveryShared(c, record_key, src_folder, dst_folder) ==
    LET dsf_uid == OwnerUid(dst_folder)
        to_shared == dst_folder.type \in SharedTypes
        from_shared == src_folder.type \in SharedTypes
        raised == to_shared /\ ~InSharedFolderCache(c, dsf_uid)
    IN [raised |-> raised,
        key |-> IF to_shared /\ ~raised
                THEN encrypt_aes(record_key, SharedFolderOf(c, dsf_uid).shared_folder_key)
                ELSE IF from_shared /\ ~to_shared
                THEN encrypt_aes(record_key, DataKey)
                ELSE NoCipher]

\* the transition key of a link from src_folder to dst_folder: NoCipher when
\* none is sent; raised: params.shared_folder_cache[dsf_uid] is a KeyError
TransitionKey(c, record_key, src_folder, dst_folder) ==
    LET dsf_uid == OwnerUid(dst_folder)
        ssf_uid == OwnerUid(src_folder)
        to_shared == dst_folder.type \in SharedTypes
        from_shared == src_folder.type \in SharedTypes
        rewrap == to_shared /\ (~from_shared \/ ssf_uid # dsf_uid)
        raised == rewrap /\ ~InSharedFolderCache(c, dsf_uid)
    IN [raised |-> raised,
        key |-> IF rewrap /\ ~raised
                THEN encrypt_aes(record_key, SharedFolderOf(c, dsf_uid).shared_folder_key)
                ELSE IF from_shared /\ ~to_shared
                THEN encrypt_aes(record_key, DataKey)
                ELSE NoCipher]

\* the move request that links rec into fol
LinkRequest(c, rec, fol, folder_ids) ==
    LET src_folder == FolderOf(c, folder_ids[1])
        dst_folder == FolderOf(c, fol.uid)
        tk == TransitionKey(c, RecordOf(c, rec.uid).record_key_unencrypted,
                            src_folder, dst_folder)
    IN [raised |-> tk.raised,
        req |-> [command |-> "move",
                 to_type |-> MoveType(dst_folder),
                 to_uid |-> IF dst_folder.type # RootFolderType THEN dst_folder.uid ELSE NoUid,
                 link |-> TRUE,
                 move |-> <<[type |-> "record",
                             uid |-> rec.uid,
                             from_type |-> MoveType(src_folder),
                             from_uid |-> IF src_folder.type # RootFolderType
                                          THEN src_folder.uid ELSE NoUid,
                             cascade |-> TRUE]>>,
                 transition_keys |-> IF tk.key = NoCipher THEN <<>>
                                     ELSE <<[uid |-> rec.uid, key |-> tk.key]>>]]

\* whether prepare_record_link builds a move for folder fol of record rec
LinkWanted(c, rec, fol, folder_ids) ==
    /\ fol.uid # NoUid /\ InFolderCache(c, fol.uid)
    /\ Len(folder_ids) > 0
    /\ fol.uid \notin Range(folder_ids)

RECURSIVE RecordLinkFolders(_, _, _, _, _)
\* for fol in rec.folders, from folder j on
RecordLinkFolders(c, a, rec, folder_ids, j) ==
    IF j > Len(rec.folders) \/ a.raised THEN a
    ELSE IF ~LinkWanted(c, rec, rec.folders[j], folder_ids)
    THEN RecordLinkFolders(c, a, rec, folder_ids, j + 1)
    ELSE LET made == LinkRequest(c, rec, rec.folders[j], folder_ids)
         IN IF made.raised THEN [a EXCEPT !.raised = TRUE]
            ELSE RecordLinkFolders(c, [a EXCEPT !.requests = Append(@, made.req)],
                                   rec, folder_ids, j + 1)

RECURSIVE RecordLinkRecords(_, _, _, _)
\* for rec in records, from record r on
RecordLinkRecords(c, a, recs, r) ==
    IF r > Len(recs) \/ a.raised THEN a
    ELSE LET rec == recs[r]
         IN IF Len(rec.folders) > 0 /\ rec.uid # NoUid /\ InRecordCache(c, rec.uid)
            THEN RecordLinkRecords(c,
                     RecordLinkFolders(c, a, rec, find_folders(c, rec.uid), 1),
                     recs, r + 1)
            ELSE RecordLinkRecords(c, a, recs, r + 1)

\* prepare_record_link(params, records)
prepare_record_link(c, recs) ==
    RecordLinkRecords(c, [requests |-> <<>>, raised |-> FALSE], recs, 1)

----------------------------------------------------------------------------
(* prepare_record_permission *)

\* for sfr in sf['records']: the first entry of the record, 0 when none
AclIndex(sf, record_uid) ==
    IF \E i \in DOMAIN sf.records : sf.records[i].record_uid = record_uid
    THEN CHOOSE i \in DOMAIN sf.records :
            /\ sf.records[i].record_uid = record_uid
            /\ \A j \in DOMAIN sf.records : sf.records[j].record_uid = record_uid => i <= j
    ELSE 0

\* the comparison on can_edit alone
AclDiffers_EditOnly(sfr, fol) == sfr.can_edit # fol.can_edit

\* the comparison that decides whether an update is built
AclDiffers(sfr, fol) == sfr.can_share # fol.can_share \/ sfr.can_edit # fol.can_edit

\* the requests of one declared folder of one record: one or none
RecordPermissionFolder(c, rec, fol) ==
    IF fol.uid # NoUid /\ InFolderCache(c, fol.uid)
    THEN LET folder == FolderOf(c, fol.uid)
             sf_uid == OwnerUid(folder)
         IN IF folder.type \in SharedTypes /\ InSharedFolderCache(c, sf_uid)
            THEN LET sf == SharedFolderOf(c, sf_uid)
                     i == AclIndex(sf, rec.uid)
                 IN IF i # 0 /\ AclDiffers(sf.records[i], fol)
                    THEN <<[command |-> "shared_folder_update",
                            operation |-> "update",
                            shared_folder_uid |-> sf_uid,
                            force_update |-> TRUE,
                            update_records |-> <<[record_uid |-> rec.uid,
                                                  shared_folder_uid |-> sf_uid,
                                                  can_edit |-> fol.can_edit,
                                                  can_share |-> fol.can_share]>>,
                            add_users |-> <<>>,
                            add_teams |-> <<>>,
                            defaults |-> <<>>]>>
                    ELSE <<>>
            ELSE <<>>
    ELSE <<>>

RECURSIVE RecordPermissionFolders(_, _, _)
\* for fol in rec.folders, from folder j on
RecordPermissionFolders(c, rec, j) ==
    IF j > Len(rec.folders) THEN <<>>
    ELSE RecordPermissionFolder(c, rec, rec.folders[j])
         \o RecordPermissionFolders(c, rec, j + 1)

RECURSIVE RecordPermissionRecords(_, _, _)
\* for rec in records, from record r on
RecordPermissionRecords(c, recs, r) ==
    IF r > Len(recs) THEN <<>>
    ELSE (IF Len(recs[r].folders) > 0 /\ recs[r].uid # NoUid /\ InRecordCache(c, recs[r].uid)
          THEN RecordPermissionFolders(c, recs[r], 1) ELSE <<>>)
         \o RecordPermissionRecords(c, recs, r + 1)

\* prepare_record_permission(params, records)
prepare_record_permission(c, recs) == RecordPermissionRecords(c, recs, 1)

----------------------------------------------------------------------------
(* prepare_shared_folder_add *)

\* every permission of every declared shared folder
AllPermissions(fols) ==
    UNION {Range(fols[i].permissions) : i \in DOMAIN fols}

\* the keys of emails: the lowercased address of every grantee whose address
\* is not params.user
KeyOwners(fols, user) ==
    {Lower(parseaddr(perm.name)) :
        perm \in {q \in AllPermissions(fols) :
                     parseaddr(q.name) # "" /\ parseaddr(q.name) # user}}

\* emails after the public_keys round trip; answered is FALSE when the call
\* raised, and then every entry stays None
PublicKeys(fols, user, dir, answered) ==
    [e \in KeyOwners(fols, user) |->
        IF answered /\ e \in DOMAIN dir THEN dir[e] ELSE NoKey]

InTeamCache(tc, uid) == \E i \in DOMAIN tc : tc[i].team_uid = uid

TeamOf(tc, uid) == tc[CHOOSE i \in DOMAIN tc : tc[i].team_uid = uid]

\* one declared permission: what it adds to the shared_folder_update.
\* raised: 'for team in params.team_cache' visits the keys of the dict, so
\* team['name'] is a TypeError as soon as the cache holds a team; wrapping a
\* missing shared folder key raises too, except under the public key of a
\* user, where the bare except drops the grant
SharedFolderGrant(p, emails, perm, parent_key) ==
    LET by_uid == perm.uid # NoUid /\ Len(p.team_cache) > 0
        email == parseaddr(perm.name)
        is_team == IF by_uid THEN InTeamCache(p.team_cache, perm.uid) ELSE email = ""
        loop_raises == ~by_uid /\ is_team /\ Len(p.team_cache) > 0
        uid == IF by_uid THEN perm.uid ELSE NoUid
        name == Lower(perm.name)
        team_ok == is_team /\ uid # NoUid /\ InTeamCache(p.team_cache, uid)
        self_ok == ~is_team /\ name = Lower(p.user)
        user_ok == /\ ~is_team /\ ~self_ok /\ name \in DOMAIN emails /\ emails[name] # NoKey
                   /\ parent_key # NoKey
        wraps == team_ok \/ self_ok
    IN [raised |-> loop_raises \/ (~loop_raises /\ wraps /\ parent_key = NoKey),
        add_teams |-> IF team_ok
                      THEN <<[team_uid |-> uid,
                              manage_users |-> perm.manage_users,
                              manage_records |-> perm.manage_records,
                              shared_folder_key |->
                                  encrypt_aes(parent_key, TeamOf(p.team_cache, uid).team_key)]>>
                      ELSE <<>>,
        add_users |-> IF self_ok
                      THEN <<[username |-> name,
                              manage_users |-> perm.manage_users,
                              manage_records |-> perm.manage_records,
                              shared_folder_key |-> encrypt_aes(parent_key, DataKey)]>>
                      ELSE IF user_ok
                      THEN <<[username |-> name,
                              manage_users |-> perm.manage_users,
                              manage_records |-> perm.manage_records,
                              shared_folder_key |-> encrypt_rsa(parent_key, emails[name])]>>
                      ELSE <<>>]

RECURSIVE SharedFolderGrants(_, _, _, _, _, _)
\* for perm in fol.permissions, from permission k on, filling request
SharedFolderGrants(p, emails, perms, parent_key, k, request) ==
    IF k > Len(perms) THEN [raised |-> FALSE, request |-> request]
    ELSE LET g == SharedFolderGrant(p, emails, perms[k], parent_key)
         IN IF g.raised THEN [raised |-> TRUE, request |-> request]
            ELSE SharedFolderGrants(p, emails, perms, parent_key, k + 1,
                     [request EXCEPT !.add_teams = @ \o g.add_teams,
                                     !.add_users = @ \o g.add_users])

\* one segment of a declared shared folder: the body of the loop over comps
SharedFolderAddStep(w, comp, is_last) ==
    LET digest == FolderDigest(comp, w.parent_uid)
        folder_uid == w.fresh
        folder_type == IF is_last THEN SharedFolderType ELSE UserFolderType
        folder_key == w.fresh
        request == [command |-> "folder_add",
                    folder_uid |-> folder_uid,
                    folder_type |-> folder_type,
                    shared_folder_uid |-> NoUid,
                    key |-> encrypt_aes(folder_key, DataKey),
                    parent_uid |-> w.parent_uid,
                    data |-> encrypt_aes(comp, folder_key)]
        kept_key == IF folder_type = SharedFolderType THEN folder_key ELSE NoKey
        found == w.folder_hash[digest]
    IN IF digest \notin DOMAIN w.folder_hash
       THEN [w EXCEPT !.requests = Append(@, request),
                      !.parent_uid = folder_uid,
                      !.parent_type = folder_type,
                      !.parent_key = folder_key,
                      !.folder_hash = (digest :> <<folder_uid, folder_type, kept_key>>) @@ @,
                      !.fresh = @ + 1]
       ELSE [w EXCEPT !.parent_uid = found[1],
                      !.parent_type = found[2],
                      !.parent_key = found[3],
                      !.skip_folder = IF is_last THEN found[2] # SharedFolderType
                                      ELSE found[2] # UserFolderType]

RECURSIVE SharedFolderAddComps_NoBreak(_, _, _)
\* the walk going on behind a conflict
SharedFolderAddComps_NoBreak(w, comps, i) ==
    IF i > Len(comps) THEN w
    ELSE SharedFolderAddComps_NoBreak(SharedFolderAddStep(w, comps[i], i = Len(comps)),
                                      comps, i + 1)

RECURSIVE SharedFolderAddComps(_, _, _)
\* for i in range(len(comps)), from segment i on, left at the first conflict
SharedFolderAddComps(w, comps, i) ==
    IF i > Len(comps) \/ w.skip_folder THEN w
    ELSE SharedFolderAddComps(SharedFolderAddStep(w, comps[i], i = Len(comps)),
                              comps, i + 1)

\* one declared shared folder: its segments, then its shared_folder_update
SharedFolderAddFolder(p, emails, w, fol) ==
    LET w0 == [w EXCEPT !.skip_folder = FALSE,
                        !.parent_uid = NoUid,
                        !.parent_type = "",
                        !.parent_key = NoKey]
        w1 == SharedFolderAddComps(w0, fol.path, 1)
        request == [command |-> "shared_folder_update",
                    operation |-> "update",
                    shared_folder_uid |-> w1.parent_uid,
                    force_update |-> TRUE,
                    update_records |-> <<>>,
                    add_users |-> <<>>,
                    add_teams |-> <<>>,
                    defaults |-> <<[manage_users |-> fol.manage_users,
                                    manage_records |-> fol.manage_records,
                                    can_edit |-> fol.can_edit,
                                    can_share |-> fol.can_share]>>]
        granted == SharedFolderGrants(p, emails, fol.permissions, w1.parent_key, 1, request)
    IN IF ~w1.skip_folder /\ w1.parent_type = SharedFolderType
       THEN IF granted.raised THEN [w1 EXCEPT !.raised = TRUE]
            ELSE [w1 EXCEPT !.requests = Append(@, granted.request)]
       ELSE w1

RECURSIVE SharedFolderAddFolders(_, _, _, _, _)
\* for fol in folders, from folder j on
SharedFolderAddFolders(p, emails, w, fols, j) ==
    IF j > Len(fols) \/ w.raised THEN w
    ELSE SharedFolderAddFolders(p, emails,
             SharedFolderAddFolder(p, emails, w, fols[j]), fols, j + 1)

\* prepare_shared_folder_add(params, folders); p holds params.user and
\* params.team_cache, answered tells whether the public_keys call returned
prepare_shared_folder_add(c, p, dir, fols, fr, answered) ==
    LET emails == PublicKeys(fols, p.user, dir, answered)
        w == [folder_hash |-> BuildFolderHash(c),
              requests |-> <<>>,
              fresh |-> fr,
              raised |-> FALSE,
              skip_folder |-> FALSE,
              parent_uid |-> NoUid,
              parent_type |-> "",
              parent_key |-> NoKey]
        res == SharedFolderAddFolders(p, emails, w, fols, 1)
    IN [requests |-> res.requests, fresh |-> res.fresh, raised |-> res.raised,
        lookup |-> KeyOwners(fols, p.user)]

----------------------------------------------------------------------------
(* The remote vault: what an accepted operation does, and the snapshot     *)
(* api.sync_down loads from it                                             *)

EmptyVault == [folders |-> <<>>, shared_folders |-> <<>>, records |-> <<>>, links |-> <<>>]

\* the snapshot of vault v as params holds it after api.sync_down
Snapshot(v) ==
    [folder_cache |-> v.folders,
     shared_folder_cache |-> v.shared_folders,
     record_cache |-> v.records,
     subfolder_record_cache |-> v.links]

VaultHasFolder(v, uid) == InFolderCache(Snapshot(v), uid)
VaultFolder(v, uid) == FolderOf(Snapshot(v), uid)
VaultHasShared(v, uid) == InSharedFolderCache(Snapshot(v), uid)
VaultHasRecord(v, uid) == InRecordCache(Snapshot(v), uid)

\* whether the remote store accepts operation op on vault v
Accepts(v, op) ==
    CASE op.command = "folder_add" ->
            /\ op.folder_uid # NoUid /\ ~VaultHasFolder(v, op.folder_uid)
            /\ IF op.folder_type = SharedFolderFolderType
               THEN /\ VaultHasShared(v, op.shared_folder_uid)
                    /\ op.parent_uid # NoUid =>
                           /\ VaultHasFolder(v, op.parent_uid)
                           /\ VaultFolder(v, op.parent_uid).type = SharedFolderFolderType
                           /\ VaultFolder(v, op.parent_uid).shared_folder_uid = op.shared_folder_uid
               ELSE op.parent_uid # NoUid =>
                        /\ VaultHasFolder(v, op.parent_uid)
                        /\ VaultFolder(v, op.parent_uid).type = UserFolderType
      [] op.command = "record_add" ->
            /\ op.record_uid # NoUid /\ ~VaultHasRecord(v, op.record_uid)
            /\ op.folder_uid # NoUid =>
                   /\ VaultHasFolder(v, op.folder_uid)
                   /\ VaultFolder(v, op.folder_uid).type = op.folder_type
      [] op.command = "move" ->
            /\ op.to_uid # NoUid => VaultHasFolder(v, op.to_uid)
            /\ \A i \in DOMAIN op.move : VaultHasRecord(v, op.move[i].uid)
      [] op.command = "shared_folder_update" -> VaultHasShared(v, op.shared_folder_uid)
      [] OTHER -> TRUE

\* the access entry a record gets when it enters shared folder sf
NewAcl(sf, record_uid) ==
    [record_uid |-> record_uid, can_share |-> sf.default_can_share,
     can_edit |-> sf.default_can_edit]

\* vault v with record record_uid placed in folder folder_uid (NoUid: the root)
Place(v, folder_uid, record_uid) ==
    LET link == [folder_uid |-> folder_uid, record_uid |-> record_uid]
        v1 == IF link \in Range(v.links) THEN v
              ELSE [v EXCEPT !.links = Append(@, link)]
        owner == OwnerUid(VaultFolder(v, folder_uid))
    IN IF folder_uid # NoUid /\ VaultFolder(v, folder_uid).type \in SharedTypes
          /\ VaultHasShared(v, owner)
       THEN [v1 EXCEPT !.shared_folders =
                [i \in DOMAIN @ |->
                    IF @[i].shared_folder_uid = owner
                       /\ \A k \in DOMAIN @[i].records : @[i].records[k].record_uid # record_uid
                    THEN [@[i] EXCEPT !.records = Append(@, NewAcl(v.shared_folders[i], record_uid))]
                    ELSE @[i]]]
       ELSE v1

\* vault v after the accepted operation op
Effect(v, op) ==
    CASE op.command = "folder_add" ->
            LET node == [uid |-> op.folder_uid,
                         name |-> op.data.plain,
                         parent_uid |-> IF op.parent_uid # NoUid THEN op.parent_uid
                                        ELSE op.shared_folder_uid,
                         type |-> op.folder_type,
                         shared_folder_uid |-> op.shared_folder_uid]
                sf == [shared_folder_uid |-> op.folder_uid,
                       shared_folder_key |-> op.key.plain,
                       records |-> <<>>, teams |-> <<>>, users |-> <<>>,
                       has_key_type |-> TRUE,
                       default_can_edit |-> FALSE, default_can_share |-> FALSE]
            IN [v EXCEPT !.folders = Append(@, node),
                         !.shared_folders = IF op.folder_type = SharedFolderType
                                            THEN Append(@, sf) ELSE @]
      [] op.command = "record_add" ->
            Place([v EXCEPT !.records =
                      Append(@, [record_uid |-> op.record_uid,
                                 title |-> op.data.plain.title,
                                 login |-> op.data.plain.secret1,
                                 password |-> op.data.plain.secret2,
                                 record_key_unencrypted |-> op.record_key.plain])],
                  op.folder_uid, op.record_uid)
      [] op.command = "move" -> Place(v, op.to_uid, op.move[1].uid)
      [] op.command = "shared_folder_update" ->
            [v EXCEPT !.shared_folders =
                [i \in DOMAIN @ |->
                    IF @[i].shared_folder_uid # op.shared_folder_uid THEN @[i]
                    ELSE [@[i] EXCEPT
                            !.default_can_edit = IF op.defaults = <<>> THEN @
                                                 ELSE op.defaults[1].can_edit,
                            !.default_can_share = IF op.defaults = <<>> THEN @
                                                  ELSE op.defaults[1].can_share,
                            !.teams = @ \o [k \in DOMAIN op.add_teams |->
                                              [team_uid |-> op.add_teams[k].team_uid,
                                               manage_records |-> op.add_teams[k].manage_records,
                                               manage_users |-> op.add_teams[k].manage_users]],
                            !.users = @ \o [k \in DOMAIN op.add_users |->
                                              op.add_users[k].username],
                            !.records = [k \in DOMAIN @ |->
                                IF \E u \in Range(op.update_records) :
                                       u.record_uid = @[k].record_uid
                                THEN LET u == CHOOSE u \in Range(op.update_records) :
                                                  u.record_uid = @[k].record_uid
                                     IN [@[k] EXCEPT !.can_share = u.can_share,
                                                     !.can_edit = u.can_edit]
                                ELSE @[k]]]]]
      [] OTHER -> v

RECURSIVE Execute(_, _, _, _)
\* the store runs operations lo..hi of ops on vault a.vault, each applied if
\* accepted and counted in a.rejected if not (halving, and reading the left
\* half's count before the right half starts, keeps the evaluation shallow
\* for a chunk of chunk_size operations)
Execute(a, ops, lo, hi) ==
    IF lo > hi THEN a
    ELSE IF lo = hi
    THEN IF Accepts(a.vault, ops[lo])
         THEN [a EXCEPT !.vault = Effect(a.vault, ops[lo])]
         ELSE [a EXCEPT !.rejected = @ + 1]
    ELSE LET mid == (lo + hi) \div 2
             left == Execute(a, ops, lo, mid)
         IN IF left.rejected >= 0 THEN Execute(left, ops, mid + 1, hi) ELSE left

\* vault v after the first k operations of ops
Apply(v, ops, k) == Execute([vault |-> v, rejected |-> 0], ops, 1, k).vault

\* how many of the first k operations of ops the store does not accept
Rejected(v, ops, k) == Execute([vault |-> v, rejected |-> 0], ops, 1, k).rejected

----------------------------------------------------------------------------
(* _import and execute_batch *)

chunk_size == 100

\* how often _import is run on one input
MaxRuns == 2

\* params.user
User == "me@x"

Params == [user |-> User, team_cache |-> teams]

\* the stages with the records created before their folders
StageAfter_RecordsFirst(s) ==
    CASE s = "start" -> IF folders # <<>> THEN "shared_folder_add"
                        ELSE IF records # <<>> THEN "record_add" ELSE "end"
      [] s = "shared_folder_add" -> IF records # <<>> THEN "record_add" ELSE "end"
      [] s = "record_add" -> "folder_add"
      [] s = "folder_add" -> "record_link"
      [] s = "record_link" -> "record_permission"
      [] OTHER -> "end"

\* the stage _import enters after stage s; "batch" is a lone execute_batch call
StageAfter(s) ==
    CASE s = "start" -> IF folders # <<>> THEN "shared_folder_add"
                        ELSE IF records # <<>> THEN "folder_add" ELSE "end"
      [] s = "shared_folder_add" -> IF records # <<>> THEN "folder_add" ELSE "end"
      [] s = "folder_add" -> "record_add"
      [] s = "record_add" -> "record_link"
      [] s = "record_link" -> "record_permission"
      [] OTHER -> "end"

\* control moves on to the stage after the current one
Advance ==
    /\ stage' = StageAfter(stage)
    /\ pc' = IF StageAfter(stage) = "end" THEN "done" ELSE "prepare"

\* the list handed over last operation first
Hand_Reversed(list) ==
    /\ requests' = [i \in DOMAIN list |-> list[Len(list) + 1 - i]]
    /\ pc' = "execute"

\* a prepare_* call returned list: it is handed to execute_batch
Hand(list) ==
    /\ requests' = list
    /\ pc' = "execute"

\* an exception left a prepare_* call: it leaves _import too
Raise ==
    /\ requests' = <<>>
    /\ pc' = "raised"

PrepareSharedFolderAdd ==
    /\ pc = "prepare" /\ stage = "shared_folder_add"
    /\ \E answered \in BOOLEAN :
        LET res == prepare_shared_folder_add(cache, Params, directory, folders, fresh, answered)
        IN /\ answered \/ (res.lookup # {} /\ faultsLeft > 0)
           /\ faultsLeft' = IF answered THEN faultsLeft ELSE faultsLeft - 1
           /\ fresh' = res.fresh
           /\ trace' = IF res.lookup = {} THEN trace
                       ELSE Append(trace, [call |-> "public_keys", run |-> run, stage |-> stage,
                                           key_owners |-> res.lookup, answered |-> answered])
           /\ IF res.raised THEN Raise ELSE Hand(res.requests)
    /\ UNCHANGED <<authVars, kwargs, report, server, cache, teams, directory, folders, records, stage, queue, run, vault0, sent>>

PrepareFolderAdd ==
    /\ pc = "prepare" /\ stage = "folder_add"
    /\ LET res == prepare_folder_add(cache, records, fresh)
       IN /\ records' = res.records
          /\ fresh' = res.fresh
          /\ Hand(res.requests)
    /\ UNCHANGED <<authVars, kwargs, report, server, cache, teams, directory, folders, stage, queue, faultsLeft,
                   run, vault0, sent, trace>>

PrepareRecordAdd ==
    /\ pc = "prepare" /\ stage = "record_add"
    /\ LET res == prepare_record_add(cache, records, fresh)
       IN /\ records' = res.records
          /\ fresh' = res.fresh
          /\ IF res.raised THEN Raise ELSE Hand(res.requests)
    /\ UNCHANGED <<authVars, kwargs, report, server, cache, teams, directory, folders, stage, queue, faultsLeft,
                   run, vault0, sent, trace>>

PrepareRecordLink ==
    /\ pc = "prepare" /\ stage = "record_link"
    /\ LET res == prepare_record_link(cache, records)
       IN IF res.raised THEN Raise ELSE Hand(res.requests)
    /\ UNCHANGED <<authVars, kwargs, report, server, cache, teams, directory, folders, records, stage, queue, fresh,
                   faultsLeft, run, vault0, sent, trace>>

PrepareRecordPermission ==
    /\ pc = "prepare" /\ stage = "record_permission"
    /\ Hand(prepare_record_permission(cache, records))
    /\ UNCHANGED <<authVars, kwargs, report, server, cache, teams, directory, folders, records, stage, queue, fresh,
                   faultsLeft, run, vault0, sent, trace>>

\* execute_batch up to its loop: an empty list returns at once
ExecuteBatchBegin ==
    /\ pc = "execute"
    /\ IF requests = <<>>
       THEN Advance /\ queue' = queue
       ELSE queue' = requests /\ pc' = "loop" /\ stage' = stage
    /\ UNCHANGED <<authVars, kwargs, report, server, cache, teams, directory, folders, records, requests, fresh,
                   faultsLeft, run, vault0, sent, trace>>

\* the answers of the remote store to a chunk of n operations: the call
\* raises, the result is not 'success', or it is with k results
Responses(n) ==
    {[kind |-> "raise", k |-> 0], [kind |-> "fail", k |-> 0]}
    \cup {[kind |-> "success", k |-> k] :
            k \in {j \in 0..n : j <= 2 \/ j >= n - 1 \/ j = (3 * n) \div 5}}

\* the unanswered tail put behind the rest of the queue
Requeue_TailLast(chunk, rest, rs) ==
    IF rs.kind = "success" /\ rs.k > 0 /\ rs.k < Len(chunk)
    THEN rest \o SubSeq(chunk, rs.k + 1, Len(chunk))
    ELSE rest

\* the chunk put back when the remote call raises
Requeue_RetryOnRaise(chunk, rest, rs) ==
    IF rs.kind = "success" /\ rs.k > 0 /\ rs.k < Len(chunk)
    THEN SubSeq(chunk, rs.k + 1, Len(chunk)) \o rest
    ELSE IF rs.kind = "raise" THEN chunk \o rest
    ELSE rest

\* the queue after one pass of the loop body on chunk with answer rs
Requeue(chunk, rest, rs) ==
    IF rs.kind = "success" /\ rs.k > 0 /\ rs.k < Len(chunk)
    THEN SubSeq(chunk, rs.k + 1, Len(chunk)) \o rest
    ELSE rest

\* the whole queue taken as one chunk
Chunk_WholeQueue(q) == q

\* queue[:chunk_size]
Chunk(q) == SubSeq(q, 1, IF Len(q) < chunk_size THEN Len(q) ELSE chunk_size)

\* queue[chunk_size:]
Rest(q) == SubSeq(q, chunk_size + 1, Len(q))

\* one pass of the while loop of execute_batch
ExecuteBatchChunk ==
    /\ pc = "loop" /\ queue # <<>>
    /\ LET chunk == Chunk(queue)
           rest == Rest(queue)
           n == Len(chunk)
       IN \E rs \in Responses(n) :
           LET full == rs.kind = "success" /\ rs.k = n
               applied == IF rs.kind = "success" THEN rs.k ELSE 0
           IN /\ full \/ faultsLeft > 0
              /\ faultsLeft' = IF full THEN faultsLeft ELSE faultsLeft - 1
              /\ server' = Apply(server, chunk, applied)
              /\ queue' = Requeue(chunk, rest, rs)
              /\ sent' = sent \o [i \in 1..n |->
                                     [run |-> run, stage |-> stage, op |-> chunk[i]]]
              /\ trace' = Append(trace, [call |-> "execute", run |-> run, stage |-> stage,
                                         chunk |-> chunk, rest |-> rest, rs |-> rs,
                                         rejected |-> Rejected(server, chunk, applied)])
    /\ UNCHANGED <<authVars, kwargs, report, cache, teams, directory, folders, records, stage, pc, requests, fresh, run,
                   vault0>>

\* the refresh left out when the last remote call raised
ExecuteBatchSync_UnlessRaised ==
    /\ pc = "loop" /\ queue = <<>>
    /\ IF trace[Len(trace)].rs.kind = "raise"
       THEN cache' = cache /\ trace' = trace
       ELSE /\ cache' = Snapshot(server)
            /\ trace' = Append(trace, [call |-> "sync_down", run |-> run, stage |-> stage])
    /\ Advance
    /\ UNCHANGED <<authVars, kwargs, report, server, teams, directory, folders, records, requests, queue, fresh,
                   faultsLeft, run, vault0, sent>>

\* the loop is over: api.sync_down(params), and execute_batch returns
ExecuteBatchSync ==
    /\ pc = "loop" /\ queue = <<>>
    /\ cache' = Snapshot(server)
    /\ trace' = Append(trace, [call |-> "sync_down", run |-> run, stage |-> stage])
    /\ Advance
    /\ UNCHANGED <<authVars, kwargs, report, server, teams, directory, folders, records, requests, queue, fresh,
                   faultsLeft, run, vault0, sent>>

\* the importer reads the file again: the same objects, no uid resolved yet
Unresolved(recs) ==
    [r \in DOMAIN recs |->
        [recs[r] EXCEPT !.uid = NoUid,
                        !.folders = [j \in DOMAIN @ |-> [@[j] EXCEPT !.uid = NoUid]]]]

\* _import is run again on the same input, against the vault as it is now
Rerun ==
    /\ pc = "done" /\ run < MaxRuns
    /\ run' = run + 1
    /\ cache' = Snapshot(server)
    /\ records' = Unresolved(records)
    /\ stage' = StageAfter("start")
    /\ pc' = "prepare"
    /\ requests' = <<>>
    /\ UNCHANGED <<authVars, kwargs, report, server, teams, directory, folders, queue, fresh, faultsLeft, vault0, sent, trace>>

----------------------------------------------------------------------------
(* password-report: PasswordReportCommand.execute *)

\* an absent option (None) is the empty sequence, a given one <<value>>
None == <<>>
Given(x) == <<x>>

Digits == <<"0", "1", "2", "3", "4", "5", "6", "7", "8", "9">>
DigitValue(c) == (CHOOSE i \in DOMAIN Digits : Digits[i] = c) - 1
IsDigitChar(c) == \E i \in DOMAIN Digits : Digits[i] = c

\* str.isdigit()
isdigit(s) == Len(s) > 0 /\ \A i \in DOMAIN s : IsDigitChar(s[i])

\* str.strip()
RECURSIVE strip(_)
strip(s) ==
    IF s = <<>> THEN s
    ELSE IF Head(s) = " " THEN strip(Tail(s))
    ELSE IF s[Len(s)] = " " THEN strip(SubSeq(s, 1, Len(s) - 1))
    ELSE s

\* str.split(','): the pieces between the commas
RECURSIVE split(_)
split(s) ==
    IF \A i \in DOMAIN s : s[i] # ","
    THEN <<s>>
    ELSE LET i == CHOOSE k \in DOMAIN s : s[k] = "," /\ \A j \in 1..(k - 1) : s[j] # ","
         IN <<SubSeq(s, 1, i - 1)>> \o split(SubSeq(s, i + 1, Len(s)))

\* the value of a string of digits
RECURSIVE DigitsValue(_)
DigitsValue(s) ==
    IF s = <<>> THEN 0 ELSE 10 * DigitsValue(SubSeq(s, 1, Len(s) - 1)) + DigitValue(s[Len(s)])

\* int(s): a sign and digits; anything else is a ValueError
CanInt(s) ==
    \/ isdigit(s)
    \/ Len(s) > 1 /\ Head(s) \in {"-", "+"} /\ isdigit(Tail(s))
int(s) ==
    IF isdigit(s) THEN DigitsValue(s)
    ELSE IF Head(s) = "-" THEN 0 - DigitsValue(Tail(s))
    ELSE DigitsValue(Tail(s))

\* any(False for c in comps if len(c) > 0 and not c.isdigit())
InvalidPolicyFormat(comps) ==
    \E i \in DOMAIN comps : Len(comps[i]) > 0 /\ ~isdigit(comps[i]) /\ FALSE

NoPolicy == [p_length |-> 0, p_lower |-> 0, p_upper |-> 0, p_digits |-> 0, p_special |-> 0]

\* the component at position i of --policy, 0 when it is missing or empty
Component(comps, i, default) ==
    IF Len(comps) >= i /\ comps[i] # <<>> THEN int(comps[i]) ELSE default

\* the components that int() is called on
Converted(comps) == {i \in DOMAIN comps : i <= 5 /\ comps[i] # <<>>}

\* an option given on the command line, else the initial value
OptionOr(option, default) == IF option # None THEN option[1] ELSE default

\* the policy of a run and how its computation ends
PolicyOf(kw) ==
    IF kw.policy # None /\ kw.policy[1] # <<>>
    THEN LET comps == [i \in DOMAIN split(kw.policy[1]) |-> strip(split(kw.policy[1])[i])]
         IN IF InvalidPolicyFormat(comps)
            THEN [error |-> "Invalid policy format", policy |-> NoPolicy]
            ELSE IF \E i \in Converted(comps) : ~CanInt(comps[i])
            THEN [error |-> "ValueError", policy |-> NoPolicy]
            ELSE [error |-> "",
                  policy |-> [p_length |-> Component(comps, 1, 0),
                              p_lower |-> Component(comps, 2, 0),
                              p_upper |-> Component(comps, 3, 0),
                              p_digits |-> Component(comps, 4, 0),
                              p_special |-> Component(comps, 5, 0)]]
    ELSE [error |-> "",
          policy |-> [p_length |-> OptionOr(kw.length, 0),
                      p_upper |-> OptionOr(kw.upper, 0),
                      p_lower |-> OptionOr(kw.lower, 0),
                      p_digits |-> OptionOr(kw.digits, 0),
                      p_special |-> OptionOr(kw.special, 0)]]

\* no requirement at all
Unspecified(p) ==
    p.p_length <= 0 /\ p.p_upper <= 0 /\ p.p_lower <= 0 /\ p.p_digits <= 0 /\ p.p_special <= 0

\* password_ok
password_ok(strength, p) ==
    /\ strength.length >= p.p_length /\ strength.caps >= p.p_upper
    /\ strength.lower >= p.p_lower /\ strength.digits >= p.p_digits
    /\ strength.symbols >= p.p_special

\* the rows of the table: the passwords that fail the policy
Table(strengths, p) == SelectSeq(strengths, LAMBDA st : ~password_ok(st, p))

\* execute(params, **kwargs)
execute(kw, strengths) ==
    LET res == PolicyOf(kw)
    IN IF res.error # ""
       THEN [status |-> res.error, policy |-> res.policy, table |-> <<>>]
       ELSE IF Unspecified(res.policy)
       THEN [status |-> "Password policy must be specified.", policy |-> res.policy, table |-> <<>>]
       ELSE [status |-> "reported", policy |-> res.policy, table |-> Table(strengths, res.policy)]

\* the strengths of the passwords of the vault's records
Strengths == <<[length |-> 12, lower |-> 6, caps |-> 2, digits |-> 2, symbols |-> 2],
               [length |-> 12, lower |-> 11, caps |-> 1, digits |-> 0, symbols |-> 0],
               [length |-> 8, lower |-> 2, caps |-> 2, digits |-> 2, symbols |-> 2],
               [length |-> 1, lower |-> 0, caps |-> 0, digits |-> 1, symbols |-> 0]>>

\* the command has not run
NotRun == [status |-> "", policy |-> NoPolicy, table |-> <<>>]
NoArgs == [policy |-> None, length |-> None, upper |-> None, lower |-> None,
           digits |-> None, special |-> None]

PasswordReport ==
    /\ report = NotRun
    /\ report' = execute(kwargs, Strengths)
    /\ UNCHANGED <<importVars, authVars, kwargs>>

----------------------------------------------------------------------------
(* ThycoticAuth of keepercommander/importer/thycotic/thycotic.py            *)
(* A token is a positive integer, '' and None are NoToken.  The token       *)
(* endpoint is the environment: asked at second t it refuses or grants the  *)
(* access token t + 1 with a lifetime and with or without a refresh token.  *)

NoToken == 0

\* ensure_auth_token: now -= 10
refresh_margin == 10

\* time.sleep(10) before a request is tried again
retry_sleep == 10

\* the last second of the clock, and the most method calls of a session
MaxClock == 24
MaxCalls == 2

\* the lifetimes the token endpoint grants
ExpiresIn == {3, 12}

\* ThycoticAuth.__init__
ThycoticAuth ==
    [access_token |-> NoToken, expires_in |-> 0, refresh_token |-> NoToken, last_login |-> 0]

\* the answers of oauth2/token at second t
TokenResponses(t) ==
    {[status_code |-> 200, access_token |-> t + 1, expires_in |-> e, refresh_token |-> r] :
        e \in ExpiresIn, r \in {NoToken, t + 1}}
    \cup {[status_code |-> 400, access_token |-> NoToken, expires_in |-> 0,
           refresh_token |-> NoToken]}

\* if rs.status_code == 200: the four fields taken from the answer at second t
Granted(rs, t) ==
    [access_token |-> rs.access_token, expires_in |-> rs.expires_in,
     refresh_token |-> rs.refresh_token, last_login |-> t]

\* refresh_auth_token on object a at second t, the endpoint answering rs
refresh_auth_token(a, rs, t) ==
    IF a.refresh_token = NoToken THEN [raised |-> TRUE, auth |-> a]
    ELSE IF rs.status_code = 200 THEN [raised |-> FALSE, auth |-> Granted(rs, t)]
    ELSE [raised |-> TRUE, auth |-> a]

\* ensure_auth_token on object a at second t
ensure_auth_token(a, rs, t) ==
    LET now == t - refresh_margin
    IN IF a.access_token # NoToken /\ a.last_login + a.expires_in < now
       THEN refresh_auth_token(a, rs, t)
       ELSE [raised |-> FALSE, auth |-> a]

ThycoticMethods == {"thycotic_search", "thycotic_entity", "thycotic_get"}

\* authenticate, the totp round included in the answer
Authenticate ==
    /\ stage = "thycotic" /\ pc = "authenticate"
    /\ \E rs \in TokenResponses(clock) :
           IF rs.status_code = 200
           THEN auth' = Granted(rs, clock) /\ pc' = "idle"
           ELSE auth' = auth /\ pc' = "raised"
    /\ UNCHANGED <<kwargs, report, server, cache, teams, directory, folders, records, stage,
                   requests, queue, fresh, faultsLeft, run, vault0, sent, trace, clock, headers>>

\* the head of thycotic_search, thycotic_entity and thycotic_get:
\* ensure_auth_token, then the headers with the bearer token
Call ==
    /\ pc = "idle"
    /\ Len(trace) < MaxCalls
    /\ \E method \in ThycoticMethods, rs \in TokenResponses(clock) :
           LET res == ensure_auth_token(auth, rs, clock)
           IN /\ auth' = res.auth
              /\ IF res.raised THEN pc' = "raised" /\ UNCHANGED <<stage, headers>>
                 ELSE /\ pc' = "get"
                      /\ stage' = method
                      /\ headers' = res.auth.access_token
    /\ UNCHANGED <<kwargs, report, server, cache, teams, directory, folders, records,
                   requests, queue, fresh, faultsLeft, run, vault0, sent, trace, clock>>

\* the request as requests.get sends it
Sent ==
    Append(trace, [call |-> "requests.get", run |-> run, stage |-> stage,
                   token |-> headers, now |-> clock, auth |-> auth])

\* requests.get of the running call: it is answered, with a further page to
\* fetch in thycotic_search, or raises, and the call sleeps before it tries again
Get ==
    /\ pc = "get" /\ stage \in ThycoticMethods
    /\ trace' = Sent
    /\ \/ pc' = "idle" /\ clock' = clock
       \/ stage = "thycotic_search" /\ Len(Sent) < MaxCalls /\ pc' = "get" /\ clock' = clock
       \/ clock + retry_sleep <= MaxClock /\ pc' = "retry" /\ clock' = clock + retry_sleep
    /\ UNCHANGED <<kwargs, report, server, cache, teams, directory, folders, records, stage,
                   requests, queue, fresh, faultsLeft, run, vault0, sent, auth, headers>>

\* the second requests.get, with the same headers: an exception leaves
\* thycotic_search and thycotic_get, thycotic_entity sleeps and returns
Retry ==
    /\ pc = "retry" /\ stage \in ThycoticMethods
    /\ trace' = Sent
    /\ \/ pc' = "idle" /\ clock' = clock
       \/ stage = "thycotic_search" /\ Len(Sent) < MaxCalls /\ pc' = "get" /\ clock' = clock
       \/ stage # "thycotic_entity" /\ pc' = "raised" /\ clock' = clock
       \/ /\ stage = "thycotic_entity" /\ clock + retry_sleep <= MaxClock
          /\ pc' = "idle" /\ clock' = clock + retry_sleep
    /\ UNCHANGED <<kwargs, report, server, cache, teams, directory, folders, records, stage,
                   requests, queue, fresh, faultsLeft, run, vault0, sent, auth, headers>>

\* a second passes between two calls
Tick ==
    /\ pc = "idle" /\ stage \in ThycoticMethods \cup {"thycotic"}
    /\ clock < MaxClock
    /\ clock' = clock + 1
    /\ UNCHANGED <<importVars, kwargs, report, auth, headers>>

----------------------------------------------------------------------------
(* Inputs *)

\* Folder() of the importer with domain and path already split by
\* path_components
ImportFolder(domain, path, can_share, can_edit) ==
    [domain |-> domain, path |-> path, can_share |-> can_share, can_edit |-> can_edit,
     uid |-> NoUid]

\* Record() of the importer
ImportRecord(fields, fols) ==
    [title |-> fields[1], login |-> fields[2], password |-> fields[3],
     folders |-> fols, uid |-> NoUid]

\* Permission() of the importer
ImportPermission(uid, name, manage_users, manage_records) ==
    [uid |-> uid, name |-> name, manage_users |-> manage_users,
     manage_records |-> manage_records]

\* SharedFolder() of the importer
ImportSharedFolder(path, perms, can_share, can_edit) ==
    [path |-> path, permissions |-> perms, manage_users |-> FALSE,
     manage_records |-> FALSE, can_edit |-> can_edit, can_share |-> can_share]

SegNames == {"a", "A", "b"}

\* the sequences over S of length at most n
SeqsUpTo(S, n) == UNION {[1..k -> S] : k \in 0..n}

\* (title, login, password): the last two differ and have one digest
Fields == {<<<<"t">>, <<"u">>, <<"p">>>>,
           <<<<"t", "|">>, <<>>, <<"p">>>>,
           <<<<"t">>, <<"|">>, <<"p">>>>}

\* a vault that holds folder "a" at the top (user folder, shared folder, or
\* shared folder whose entry is missing from shared_folder_cache), folder "b"
\* below it, and one record in one of them or in the root
SeedVault(top, sub, rec, acl) ==
    LET a == [uid |-> 2, name |-> "a", parent_uid |-> NoUid,
              type |-> IF top = "user" THEN UserFolderType ELSE SharedFolderType,
              shared_folder_uid |-> NoUid]
        b == [uid |-> 3, name |-> "b", parent_uid |-> 2,
              type |-> IF top = "user" THEN UserFolderType ELSE SharedFolderFolderType,
              shared_folder_uid |-> IF top = "user" THEN NoUid ELSE 2]
        r == [record_uid |-> 4, title |-> <<"t">>, login |-> <<"u">>, password |-> <<"p">>,
              record_key_unencrypted |-> 4]
        at == CASE rec = "top" -> 2 [] rec = "sub" -> 3 [] OTHER -> NoUid
        sf == [shared_folder_uid |-> 2, shared_folder_key |-> 5,
               records |-> IF rec \in {"top", "sub"}
                           THEN <<[record_uid |-> 4, can_share |-> acl[1], can_edit |-> acl[2]]>>
                           ELSE <<>>,
               teams |-> <<>>, users |-> <<>>, has_key_type |-> TRUE,
               default_can_edit |-> FALSE, default_can_share |-> FALSE]
    IN [folders |-> IF top = "none" THEN <<>> ELSE IF sub THEN <<a, b>> ELSE <<a>>,
        shared_folders |-> IF top = "shared" THEN <<sf>> ELSE <<>>,
        records |-> IF rec = "none" THEN <<>> ELSE <<r>>,
        links |-> IF rec = "none" THEN <<>> ELSE <<[folder_uid |-> at, record_uid |-> 4]>>]

\* the seed vaults: folder "b" needs folder "a", and the record a folder
SeedVaults(tops, subs, recs, acls) ==
    {SeedVault(c[1], c[2], c[3], c[4]) :
        c \in {d \in tops \X subs \X recs \X acls :
                  /\ d[1] = "none" => ~d[2] /\ d[3] \in {"none", "root"}
                  /\ d[3] = "sub" => d[2]
                  /\ d[3] \in {"none", "root"} \/ d[1] \in {"user", "orphan"}
                        => d[4] = <<FALSE, FALSE>>}}

\* a state with control at position at of stage st and nothing sent yet
Begin(v, tc, dir, fols, recs, faults, st, at, reqs) ==
    /\ server = v
    /\ cache = Snapshot(v)
    /\ teams = tc
    /\ directory = dir
    /\ folders = fols
    /\ records = recs
    /\ stage = st
    /\ pc = at
    /\ requests = reqs
    /\ queue = <<>>
    /\ fresh = 10
    /\ faultsLeft = faults
    /\ run = 1
    /\ vault0 = v
    /\ sent = <<>>
    /\ trace = <<>>
    /\ kwargs = NoArgs
    /\ report = NotRun
    /\ auth = ThycoticAuth
    /\ clock = 0
    /\ headers = NoToken

\* the state _import starts from, after its api.sync_down
Start(v, tc, dir, fols, recs, faults) ==
    Begin(v, tc, dir, fols, recs, faults,
          IF fols # <<>> THEN "shared_folder_add"
          ELSE IF recs # <<>> THEN "folder_add" ELSE "end",
          IF fols = <<>> /\ recs = <<>> THEN "done" ELSE "prepare",
          <<>>)

----------------------------------------------------------------------------
(* get_import_folder *)
(* A path string is the sequence of its segments.  The folder names of the  *)
(* snapshots hold no PathDelimiter, so name.replace leaves a name as it is  *)
(* and joining with the delimiter is concatenation; None is << >>.          *)

RECURSIVE GetImportFolderFrom(_, _, _, _)
\* while uid in params.folder_cache, from folder uid upwards
GetImportFolderFrom(c, folder, uid, record_uid) ==
    IF ~InFolderCache(c, uid) THEN folder
    ELSE LET f == FolderOf(c, uid)
             path == <<f.name>> \o folder.path
             rows == IF InSharedFolderCache(c, f.uid) THEN SharedFolderOf(c, f.uid).records
                     ELSE <<>>
             hits == {i \in DOMAIN rows : rows[i].record_uid = record_uid}
             sfr == rows[CHOOSE i \in hits : \A k \in hits : i <= k]
             folder1 == IF f.type # SharedFolderType THEN [folder EXCEPT !.path = path]
                        ELSE IF hits = {}
                             THEN [folder EXCEPT !.domain = path, !.path = <<>>]
                             ELSE [folder EXCEPT !.domain = path, !.path = <<>>,
                                                 !.can_share = sfr.can_share,
                                                 !.can_edit = sfr.can_edit]
         IN IF f.parent_uid = NoUid THEN folder1
            ELSE GetImportFolderFrom(c, folder1, f.parent_uid, record_uid)

get_import_folder(c, folder_uid, record_uid) ==
    GetImportFolderFrom(c, ImportFolder(<<>>, <<>>, FALSE, FALSE), folder_uid, record_uid)

\* the export of one record of one folder of the snapshot, handed to an
\* import into the same vault
GetImportFolder ==
    /\ pc = "prepare" /\ stage = "export"
    /\ \E i \in DOMAIN cache.folder_cache, record_uid \in {NoUid, 4} :
           LET folder_uid == cache.folder_cache[i].uid
           IN /\ records' = <<ImportRecord(<<<<"t">>, <<"u">>, <<"p">>>>,
                                           <<get_import_folder(cache, folder_uid, record_uid)>>)>>
              /\ trace' = Append(trace, [call |-> "get_import_folder", run |-> run,
                                         stage |-> stage, folder_uid |-> folder_uid,
                                         record_uid |-> record_uid])
    /\ stage' = "folder_add"
    /\ UNCHANGED <<authVars, kwargs, report, server, cache, teams, directory, folders, pc, requests, queue,
                   fresh, faultsLeft, run, vault0, sent>>

----------------------------------------------------------------------------
(* Specifications *)

\* bounds of the inputs
MaxRecords == 2
MaxFolders == 2
MaxFaults == 1
MaxDomain == 2
MaxPath == 2
MaxOps == 250

Next ==
    \/ PrepareSharedFolderAdd
    \/ PrepareFolderAdd
    \/ PrepareRecordAdd
    \/ PrepareRecordLink
    \/ PrepareRecordPermission
    \/ ExecuteBatchBegin
    \/ ExecuteBatchChunk
    \/ ExecuteBatchSync
    \/ Rerun

\* the declared shared folders of the import runs
RunSharedFolders ==
    {<<>>,
     <<ImportSharedFolder(<<"a">>, <<>>, TRUE, FALSE)>>,
     <<ImportSharedFolder(<<"b", "a">>, <<ImportPermission(NoUid, "bob@x", FALSE, TRUE)>>,
                          FALSE, FALSE)>>}

Directory == [e \in {"bob@x"} |-> 7]

\* the declared folders of the import runs
RunFolders ==
    {ImportFolder(<<>>, <<"a", "b">>, FALSE, FALSE),
     ImportFolder(<<>>, <<"A">>, TRUE, FALSE),
     ImportFolder(<<"a">>, <<>>, FALSE, FALSE),
     ImportFolder(<<"a">>, <<"b">>, TRUE, FALSE),
     ImportFolder(<<"b">>, <<"a">>, FALSE, TRUE),
     ImportFolder(<<>>, <<>>, FALSE, FALSE)}

\* the declared folders of the runs of several records
FewFolders ==
    {ImportFolder(<<>>, <<"a", "b">>, FALSE, FALSE),
     ImportFolder(<<"a">>, <<"b">>, TRUE, FALSE),
     ImportFolder(<<"b">>, <<>>, FALSE, TRUE)}

\* the record lists of the import runs: one record with up to MaxFolders
\* folders, or MaxRecords records with at most one folder each
RunRecords ==
    {<<ImportRecord(f, fols)>> :
        f \in {g \in Fields : g[2] # <<"|">>}, fols \in SeqsUpTo(RunFolders, MaxFolders)}
    \cup {[i \in 1..MaxRecords |-> ImportRecord(fs[i], <<fols[i]>>)] :
            fs \in [1..MaxRecords -> Fields],
            fols \in [1..MaxRecords ->
                        FewFolders \cup {ImportFolder(<<>>, <<"A">>, TRUE, FALSE)}]}

\* every remote call answers in full
InitApplied ==
    \E v \in SeedVaults({"none", "user", "shared"}, BOOLEAN, {"none", "sub"},
                        {<<FALSE, FALSE>>, <<TRUE, FALSE>>}),
       fols \in RunSharedFolders, recs \in RunRecords :
        Start(v, <<>>, Directory, fols, recs, 0)

SpecApplied == InitApplied /\ [][Next]_vars

\* the record lists of the runs whose remote calls may fail
FaultyRecords ==
    {<<ImportRecord(f, fols)>> :
        f \in {g \in Fields : g[2] # <<"|">>}, fols \in SeqsUpTo(FewFolders, MaxFolders)}
    \cup {[i \in 1..MaxRecords |-> ImportRecord(fs[i], <<fols[i]>>)] :
            fs \in [1..MaxRecords -> {f \in Fields : f[2] # <<>>}],
            fols \in [1..MaxRecords -> FewFolders]}

\* up to MaxFaults remote calls raise, fail or answer in part
Init ==
    \E v \in SeedVaults({"none", "shared"}, {TRUE}, {"none", "top"}, {<<FALSE, FALSE>>})
                \cup {EmptyVault},
       fols \in {f \in RunSharedFolders : f = <<>> \/ f[1].permissions # <<>>},
       recs \in FaultyRecords :
        Start(v, <<>>, Directory, fols, recs, MaxFaults)

Spec == Init /\ [][Next]_vars

\* a lone call of execute_batch on n operations
InitBatch ==
    \E n \in {0, 1, 3, chunk_size, chunk_size + 1, MaxOps}, faults \in 0..(MaxFaults + 1) :
        Begin(EmptyVault, <<>>, Directory, <<>>, <<>>, faults, "batch", "execute",
              [i \in 1..n |-> [command |-> "noop", id |-> i]])

NextBatch ==
    \/ ExecuteBatchBegin
    \/ ExecuteBatchChunk
    \/ ExecuteBatchSync

SpecBatch == InitBatch /\ [][NextBatch]_vars

\* the longest list of the calls of execute_batch that are followed to their
\* end
MaxSmall == 5

\* a lone call of execute_batch on up to MaxSmall operations, with as many
\* answers that are a raise, a non-success or a short result list as the
\* call can get
InitBatchAny ==
    \E n \in 0..MaxSmall :
        Begin(EmptyVault, <<>>, Directory, <<>>, <<>>, n, "batch", "execute",
              [i \in 1..n |-> [command |-> "noop", id |-> i]])

\* execute_batch is sequential code and api.communicate returns or raises:
\* the step that is next is taken
FairSpecBatch == InitBatchAny /\ [][NextBatch]_vars /\ WF_vars(NextBatch)

\* the declared folders prepare_folder_add is applied to
WideFolders ==
    {ImportFolder(d, p, FALSE, FALSE) :
        d \in SeqsUpTo(SegNames, MaxDomain), p \in SeqsUpTo(SegNames, MaxPath)}

\* one record with one folder of any shape or with up to MaxFolders of the
\* folders of the import runs, or up to MaxRecords + 1 records that declare
\* the same folder
WideRecords ==
    {<<ImportRecord(<<<<"t">>, <<"u">>, <<"p">>>>, fols)>> :
        fols \in SeqsUpTo(RunFolders, MaxFolders)}
    \cup {[i \in 1..n |-> ImportRecord(<<<<"t">>, <<"u">>, <<"p">>>>, <<f>>)] :
            n \in 1..(MaxRecords + 1), f \in WideFolders}

\* a lone call of prepare_folder_add
InitFolderAdd ==
    \E v \in SeedVaults({"none", "user", "shared", "orphan"}, BOOLEAN, {"none"},
                        {<<FALSE, FALSE>>}),
       recs \in WideRecords :
        Start(v, <<>>, Directory, <<>>, recs, 0)

NextFolderAdd == PrepareFolderAdd

SpecFolderAdd == InitFolderAdd /\ [][NextFolderAdd]_vars

\* params.team_cache with one team
OneTeam == <<[team_uid |-> 8, name |-> "Ops", team_key |-> 9]>>

\* the declared shared folders of the runs on any snapshot: the grantee is
\* a team named by uid, or a name that holds no address
AnySharedFolders ==
    {<<>>,
     <<ImportSharedFolder(<<"a">>, <<ImportPermission(8, "Ops", FALSE, TRUE)>>, TRUE, FALSE)>>,
     <<ImportSharedFolder(<<"a">>, <<ImportPermission(NoUid, "@", FALSE, FALSE)>>,
                          FALSE, FALSE)>>}

\* the record lists of the runs on any snapshot
AnyRecords ==
    {<<ImportRecord(<<<<"t">>, <<"u">>, <<"p">>>>, fols)>> :
        fols \in SeqsUpTo(FewFolders, MaxFolders - 1)}

\* runs on any snapshot, also one whose shared folder has no entry in
\* shared_folder_cache, with and without a team in params.team_cache
InitAny ==
    \E v \in SeedVaults({"shared", "orphan"}, {TRUE}, {"none", "top", "sub"},
                        {<<FALSE, FALSE>>}) \cup {EmptyVault},
       tc \in {<<>>, OneTeam},
       fols \in AnySharedFolders, recs \in AnyRecords :
        Start(v, tc, Directory, fols, recs, MaxFaults)

SpecAny == InitAny /\ [][Next]_vars

\* the largest value of a numeric option of password-report
MaxOption == 1

\* what --length, --upper, --lower, --digits, --special can be
Options == {None} \cup {Given(n) : n \in (0 - 1)..MaxOption}

\* what --policy can be: absent, empty, the documented default, shorter and
\* longer lists, blanks, zeros, a signed number and components that are no
\* numbers
Policies ==
    {None, Given(<<>>),
     Given(<<"1", "2", ",", "2", ",", "2", ",", "2", ",", "0">>),
     Given(<<"8">>),
     Given(<<",", ",", ",", ",", "1">>),
     Given(<<" ", "8", " ", ",", "1">>),
     Given(<<"0", ",", "0">>),
     Given(<<"1", ",", "1", ",", "1", ",", "1", ",", "1", ",", "x">>),
     Given(<<"-", "1">>),
     Given(<<"x">>),
     Given(<<"8", ",", "x">>)}

\* password-report run once on any command line
InitPolicy ==
    /\ \E pol \in Policies, l \in Options, u \in Options, lo \in Options, d \in Options,
            sp \in Options :
          kwargs = [policy |-> pol, length |-> l, upper |-> u, lower |-> lo,
                    digits |-> d, special |-> sp]
    /\ report = NotRun
    /\ server = EmptyVault /\ cache = Snapshot(EmptyVault) /\ teams = <<>>
    /\ directory = Directory /\ folders = <<>> /\ records = <<>>
    /\ stage = "end" /\ pc = "done" /\ requests = <<>> /\ queue = <<>> /\ fresh = 10
    /\ faultsLeft = 0 /\ run = 1 /\ vault0 = EmptyVault /\ sent = <<>> /\ trace = <<>>
    /\ auth = ThycoticAuth /\ clock = 0 /\ headers = NoToken
NextPolicy == PasswordReport
SpecPolicy == InitPolicy /\ [][NextPolicy]_vars


\* the most teams a shared folder of the snapshot has
MaxTeams == 2

\* the entries of sf['teams']
TeamEntries ==
    {[team_uid |-> u, manage_records |-> m, manage_users |-> FALSE] :
        u \in {8, 9}, m \in BOOLEAN}

\* the vault with shared folder a, folder b below it and teams tms on the
\* shared folder, whose key the user holds (key_type) or has through a team
TeamVault(tms, key_type) ==
    LET v == SeedVault("shared", TRUE, "none", <<FALSE, FALSE>>)
    IN [v EXCEPT !.shared_folders[1].teams = tms,
                 !.shared_folders[1].has_key_type = key_type]

\* a declared folder already resolved to uid
ResolvedFolder(uid) == [ImportFolder(<<"a">>, <<>>, FALSE, FALSE) EXCEPT !.uid = uid]

\* one or two new records whose first folder is the shared folder, the folder
\* below it, a folder the snapshot lacks, or none
ResolvedRecords ==
    LET one == {ImportRecord(<<<<"t">>, <<"u">>, <<"p">>>>, fols) :
                   fols \in {<<>>} \cup {<<ResolvedFolder(uid)>> : uid \in {2, 3, 6}}}
    IN {<<r>> : r \in one}
       \cup {<<r, ImportRecord(<<<<"t">>, <<"|">>, <<"p">>>>, <<ResolvedFolder(3)>>)>> : r \in one}

\* a lone call of prepare_record_add
InitRecordAdd ==
    \E v \in {TeamVault(tms, kt) : tms \in SeqsUpTo(TeamEntries, MaxTeams), kt \in BOOLEAN}
                \cup {SeedVault("user", TRUE, "none", <<FALSE, FALSE>>)},
       recs \in ResolvedRecords :
        Begin(v, <<>>, Directory, <<>>, recs, 0, "record_add", "prepare", <<>>)

NextRecordAdd == PrepareRecordAdd

SpecRecordAdd == InitRecordAdd /\ [][NextRecordAdd]_vars

\* the most folders of the snapshot that hold the record
MaxPlaces == 2

\* the seed vault with a second folder c at the top (a user folder, or a
\* shared folder with a key of its own) and the record held by the folders
\* places, in this order; uid NoUid is the root
LinkVault(top, second, places) ==
    LET v == SeedVault(top, TRUE, "root", <<FALSE, FALSE>>)
        c == [uid |-> 6, name |-> "c", parent_uid |-> NoUid,
              type |-> IF second = "user" THEN UserFolderType ELSE SharedFolderType,
              shared_folder_uid |-> NoUid]
        sf == [shared_folder_uid |-> 6, shared_folder_key |-> 20, records |-> <<>>,
               teams |-> <<>>, users |-> <<>>, has_key_type |-> TRUE,
               default_can_edit |-> FALSE, default_can_share |-> FALSE]
    IN [v EXCEPT !.folders = IF second = "none" THEN @ ELSE Append(@, c),
                 !.shared_folders = IF second = "shared" THEN Append(@, sf) ELSE @,
                 !.links = [k \in DOMAIN places |-> [folder_uid |-> places[k], record_uid |-> 4]]]

\* the vaults prepare_record_link is applied to
LinkVaults ==
    {LinkVault(c[1], c[2], c[3]) :
        c \in {d \in {"user", "shared", "orphan"} \X {"none", "user", "shared"}
                        \X SeqsUpTo({NoUid, 2, 3, 6}, MaxPlaces) :
                  /\ d[3] # <<>>
                  /\ \A i, j \in DOMAIN d[3] : i # j => d[3][i] # d[3][j]
                  /\ d[2] = "none" => \A i \in DOMAIN d[3] : d[3][i] # 6}}

\* the import record, matched to the record of the vault or to none, with
\* declared folders that resolved to a, a/b, c, a folder the snapshot lacks,
\* or to nothing
LinkRecords ==
    {<<[ImportRecord(<<<<"t">>, <<"u">>, <<"p">>>>,
                     [j \in DOMAIN uids |-> ResolvedFolder(uids[j])]) EXCEPT !.uid = uid]>> :
        uids \in SeqsUpTo({NoUid, 2, 3, 6, 15}, MaxFolders), uid \in {NoUid, 4}}

\* a lone call of prepare_record_link
InitRecordLink ==
    \E v \in LinkVaults, recs \in LinkRecords :
        Begin(v, <<>>, Directory, <<>>, recs, 0, "record_link", "prepare", <<>>)

NextRecordLink == PrepareRecordLink

SpecRecordLink == InitRecordLink /\ [][NextRecordLink]_vars

\* the most permissions of a declared shared folder
MaxPermissions == 2

\* the vault with shared folder a whose access list holds users and tms
AclVault(users, tms) ==
    LET v == SeedVault("shared", FALSE, "none", <<FALSE, FALSE>>)
    IN [v EXCEPT !.shared_folders[1].users = users, !.shared_folders[1].teams = tms]

\* the vaults prepare_shared_folder_add is applied to: no folder, a as a user
\* folder, a as a shared folder with no entry in shared_folder_cache, and a
\* as a shared folder that bob and team 8 have, has not, or have with other
\* flags
GrantVaults ==
    {EmptyVault, SeedVault("user", FALSE, "none", <<FALSE, FALSE>>),
     SeedVault("orphan", FALSE, "none", <<FALSE, FALSE>>)}
    \cup {AclVault(us, ts) :
            us \in {<<>>} \cup {<<[username |-> "bob@x", manage_users |-> FALSE,
                                   manage_records |-> mr]>> : mr \in BOOLEAN},
            ts \in {<<>>, <<[team_uid |-> 8, manage_users |-> FALSE,
                             manage_records |-> TRUE]>>}}

\* the declared grantees: the team by uid and by name, a uid that is no
\* team, a user with and one without a public key, spelled in lower case or
\* not, the operator, and a name that holds no address
Grantees ==
    {ImportPermission(8, "Ops", FALSE, TRUE),
     ImportPermission(NoUid, "Ops", FALSE, TRUE),
     ImportPermission(9, "Dev", FALSE, TRUE),
     ImportPermission(NoUid, "bob@x", FALSE, TRUE),
     ImportPermission(NoUid, "Bob@x", FALSE, FALSE),
     ImportPermission(NoUid, "carol@x", FALSE, TRUE),
     ImportPermission(NoUid, "me@x", TRUE, TRUE),
     ImportPermission(NoUid, "Me@x", TRUE, FALSE),
     ImportPermission(NoUid, "@", FALSE, FALSE)}

\* one declared shared folder with up to MaxPermissions grantees, or two with
\* up to one each
GrantFolders ==
    {<<ImportSharedFolder(path, perms, FALSE, FALSE)>> :
        path \in {<<"a">>, <<"c">>}, perms \in SeqsUpTo(Grantees, MaxPermissions)}
    \cup {<<ImportSharedFolder(<<"a">>, p1, FALSE, FALSE),
            ImportSharedFolder(path, p2, FALSE, FALSE)>> :
            path \in {<<"a">>, <<"c">>},
            p1 \in SeqsUpTo(Grantees, 1), p2 \in SeqsUpTo(Grantees, 1)}

\* a lone call of prepare_shared_folder_add
InitSharedFolderAdd ==
    \E v \in GrantVaults, tc \in {<<>>, OneTeam}, fols \in GrantFolders, faults \in 0..MaxFaults :
        Begin(v, tc, Directory, fols, <<>>, faults, "shared_folder_add", "prepare", <<>>)

NextSharedFolderAdd == PrepareSharedFolderAdd

SpecSharedFolderAdd == InitSharedFolderAdd /\ [][NextSharedFolderAdd]_vars

\* the most shared folders an import declares for a lone walk
MaxDeclared == 2

\* the paths of the declared shared folders of a lone walk
WalkPaths ==
    {<<"a">>, <<"A">>, <<"c">>, <<"a", "b">>, <<"a", "c">>, <<"c", "a">>, <<"a", "b", "c">>}

\* up to MaxDeclared declared shared folders, with no grantee or with bob
WalkFolders ==
    {f \in SeqsUpTo({ImportSharedFolder(path, perms, FALSE, FALSE) :
                        path \in WalkPaths,
                        perms \in {<<>>, <<ImportPermission(NoUid, "bob@x", FALSE, TRUE)>>}},
                    MaxDeclared) : f # <<>>}

\* a lone call of prepare_shared_folder_add on snapshots with folder a of any
\* tier at the top, with or without b below it
InitSharedFolderWalk ==
    \E v \in SeedVaults({"none", "user", "shared", "orphan"}, BOOLEAN, {"none"},
                        {<<FALSE, FALSE>>}),
       fols \in WalkFolders, faults \in 0..MaxFaults :
        Begin(v, <<>>, Directory, fols, <<>>, faults, "shared_folder_add", "prepare", <<>>)

SpecSharedFolderWalk == InitSharedFolderWalk /\ [][NextSharedFolderAdd]_vars

\* the deepest folder of an exported vault
MaxDepth == 3

\* a vault with one chain of folders, folder i + 1 below folder i, of the
\* given names and tiers; the shared folder of the chain holds record 4
ChainVault(names, tiers) ==
    LET uids == [i \in DOMAIN tiers |-> IF i <= 2 THEN i + 1 ELSE i + 3]
        shared == {i \in DOMAIN tiers : tiers[i] = SharedFolderType}
        owner(i) == IF tiers[i] = SharedFolderFolderType
                    THEN uids[CHOOSE k \in shared : TRUE] ELSE NoUid
    IN [folders |-> [i \in DOMAIN tiers |->
                        [uid |-> uids[i], name |-> names[i],
                         parent_uid |-> IF i = 1 THEN NoUid ELSE uids[i - 1],
                         type |-> tiers[i], shared_folder_uid |-> owner(i)]],
        shared_folders |-> IF shared = {} THEN <<>>
                           ELSE <<[shared_folder_uid |-> uids[CHOOSE k \in shared : TRUE],
                                   shared_folder_key |-> 5,
                                   records |-> <<[record_uid |-> 4, can_share |-> TRUE,
                                                  can_edit |-> FALSE]>>,
                                   teams |-> <<>>, users |-> <<>>, has_key_type |-> TRUE,
                                   default_can_edit |-> FALSE, default_can_share |-> FALSE]>>,
        records |-> <<[record_uid |-> 4, title |-> <<"t">>, login |-> <<"u">>,
                       password |-> <<"p">>, record_key_unencrypted |-> 4]>>,
        links |-> <<[folder_uid |-> uids[CHOOSE k \in DOMAIN tiers :
                                            k \in shared \/ (shared = {} /\ k = 1)],
                     record_uid |-> 4]>>]

\* the chains of tiers a vault can hold: user folders, then at most one
\* shared folder, then shared_folder_folders
TierChains ==
    {t \in SeqsUpTo({UserFolderType, SharedFolderType, SharedFolderFolderType}, MaxDepth) :
        /\ t # <<>>
        /\ t[1] # SharedFolderFolderType
        /\ \A i \in 2..Len(t) :
              IF t[i - 1] = UserFolderType THEN t[i] # SharedFolderFolderType
              ELSE t[i] = SharedFolderFolderType}

ChainVaults ==
    {ChainVault(names, t) : names \in [1..MaxDepth -> {"a", "b"}], t \in TierChains}

\* an export of one folder of a vault followed by prepare_folder_add of what
\* was exported, against the same snapshot
InitExport ==
    \E v \in ChainVaults :
        Begin(v, <<>>, Directory, <<>>, <<>>, 0, "export", "prepare", <<>>)

NextExport == GetImportFolder \/ PrepareFolderAdd

SpecExport == InitExport /\ [][NextExport]_vars

\* a session of ThycoticAuth: authenticate, then method calls as time passes
InitThycotic ==
    Begin(EmptyVault, <<>>, Directory, <<>>, <<>>, 0, "thycotic", "authenticate", <<>>)

NextThycotic == Authenticate \/ Call \/ Get \/ Retry \/ Tick

SpecThycotic == InitThycotic /\ [][NextThycotic]_vars

----------------------------------------------------------------------------
(* Properties *)

\* every remote call of run r answered 'success' with a result for each
\* operation, and the store took each operation
FullyApplied(r) ==
    \A i \in DOMAIN trace :
        /\ (trace[i].run = r /\ trace[i].call = "execute") =>
                /\ trace[i].rs.kind = "success"
                /\ trace[i].rs.k = Len(trace[i].chunk)
                /\ trace[i].rejected = 0
        /\ (trace[i].run = r /\ trace[i].call = "public_keys") => trace[i].answered

\* C1: when a first run of _import had every batch fully applied, the second
\* run on the same input emits no folder_add, from prepare_shared_folder_add
\* or from prepare_folder_add, and no record_add
C1_Idempotence ==
    (run = 2 /\ FullyApplied(1)) =>
        /\ \A i \in DOMAIN requests :
               requests[i].command \notin {"folder_add", "record_add"}
        /\ \A i \in DOMAIN sent :
               sent[i].run = 2 => sent[i].op.command \notin {"folder_add", "record_add"}

\* a second run is over after a first run that created a shared folder, a
\* record's folder and a record
C1_Witness ==
    /\ run = 2 /\ pc = "done" /\ FullyApplied(1)
    /\ \E i, j, k \in DOMAIN sent :
          /\ sent[i].run = 1 /\ sent[i].stage = "shared_folder_add"
          /\ sent[i].op.command = "folder_add"
          /\ sent[j].run = 1 /\ sent[j].stage = "folder_add"
          /\ sent[k].run = 1 /\ sent[k].op.command = "record_add"

\* the input declares no shared folder and no ownership boundary
RecordOnly ==
    /\ folders = <<>>
    /\ \A r \in DOMAIN records : \A j \in DOMAIN records[r].folders :
           records[r].folders[j].domain = <<>>

\* C2: the second run on a record-only input whose first run was fully
\* applied hands no operation to execute_batch and submits none
C2_NoOperations ==
    (run = 2 /\ FullyApplied(1) /\ RecordOnly) =>
        (requests = <<>> /\ \A i \in DOMAIN sent : sent[i].run # 2)

\* no two import records have one fingerprint
DistinctFingerprints ==
    \A r1, r2 \in DOMAIN records :
        r1 # r2 => RecordDigest(records[r1].title, records[r1].login, records[r1].password)
                   # RecordDigest(records[r2].title, records[r2].login, records[r2].password)

\* the second run is silent when, besides, no two import records have one
\* fingerprint and the vault held no shared folder a plain segment could match
C2_NoOperationsDistinctPlain ==
    (run = 2 /\ FullyApplied(1) /\ RecordOnly /\ DistinctFingerprints
        /\ vault0.shared_folders = <<>>) =>
        (requests = <<>> /\ \A i \in DOMAIN sent : sent[i].run # 2)

\* the folder of snapshot c named like segment seg below parent_uid: its uid,
\* NoUid when there is none
ChildNamed(c, seg, parent_uid) ==
    LET hits == {i \in DOMAIN c.folder_cache :
                    /\ Lower(c.folder_cache[i].name) = Lower(seg)
                    /\ c.folder_cache[i].parent_uid = parent_uid}
    IN IF hits = {} THEN NoUid ELSE c.folder_cache[CHOOSE i \in hits : TRUE].uid

RECURSIVE MissingSegments(_, _, _, _)
\* how many of the segments i.. of segs snapshot c lacks, walking from
\* parent_uid: all that remain from the first segment with no folder
MissingSegments(c, segs, i, parent_uid) ==
    IF i > Len(segs) THEN 0
    ELSE IF ChildNamed(c, segs[i], parent_uid) = NoUid THEN Len(segs) - i + 1
    ELSE MissingSegments(c, segs, i + 1, ChildNamed(c, segs[i], parent_uid))

\* every import record declares one folder, the same for all
SameFolder ==
    /\ records # <<>>
    /\ \A r \in DOMAIN records :
          /\ Len(records[r].folders) = 1
          /\ records[r].folders[1].domain = records[1].folders[1].domain
          /\ records[r].folders[1].path = records[1].folders[1].path

\* prepare_folder_add has just returned
AfterFolderAdd == stage = "folder_add" /\ pc = "execute"

\* C3: when the N import records of a run declare the same folder,
\* prepare_folder_add emits one folder_add for each segment the snapshot
\* lacks, whatever N is, and the N folders resolve to one uid
C3_FanIn ==
    (AfterFolderAdd /\ SameFolder) =>
        LET fol == records[1].folders[1]
            segs == fol.domain \o fol.path
        IN /\ Len(requests) = MissingSegments(cache, segs, 1, NoUid)
           /\ \A i \in DOMAIN requests : requests[i].command = "folder_add"
           /\ \A i, j \in DOMAIN requests :
                  i # j => requests[i].folder_uid # requests[j].folder_uid
           /\ \A r \in DOMAIN records : records[r].folders[1].uid = fol.uid
           /\ segs # <<>> => fol.uid # NoUid

\* three records declare one folder of two segments, the first of them in
\* the vault and the second not
C3_Witness ==
    /\ AfterFolderAdd /\ SameFolder
    /\ Len(records) = 3
    /\ Len(records[1].folders[1].domain \o records[1].folders[1].path) = 2
    /\ cache.folder_cache # <<>>
    /\ Len(requests) = 1

\* the type of the folder of snapshot c with uid uid
TypeOf(c, uid) == FolderOf(c, uid).type

RECURSIVE TierConflict(_, _, _, _, _)
\* whether a segment i.. of segs, walked from parent_uid in snapshot c,
\* matches a folder of another tier than it requires: segment boundary (the
\* last of the domain) requires a shared folder, any other segment a folder
\* that is not one
TierConflict(c, segs, boundary, i, parent_uid) ==
    IF i > Len(segs) THEN FALSE
    ELSE LET uid == ChildNamed(c, segs[i], parent_uid)
         IN IF uid = NoUid THEN FALSE
            ELSE \/ (i = boundary) # (TypeOf(c, uid) = SharedFolderType)
                 \/ TierConflict(c, segs, boundary, i + 1, uid)

\* C4: a declared folder with a segment that matches an existing folder of
\* another tier than the segment requires is skipped by prepare_folder_add:
\* it gets no destination uid and no folder_add is emitted for it
C4_TierConflictSkip ==
    AfterFolderAdd =>
        \A r \in DOMAIN records : \A j \in DOMAIN records[r].folders :
            LET fol == records[r].folders[j]
            IN TierConflict(cache, fol.domain \o fol.path, Len(fol.domain), 1, NoUid) =>
                  /\ fol.uid = NoUid
                  /\ (Len(records) = 1 /\ Len(records[r].folders) = 1) => requests = <<>>

\* the entries of record rec in the access list of the shared folder that
\* owns declared folder fol, as the snapshot holds them
LiveEntries(rec, fol) ==
    IF rec.uid = NoUid \/ ~InRecordCache(cache, rec.uid)
       \/ fol.uid = NoUid \/ ~InFolderCache(cache, fol.uid)
    THEN {}
    ELSE IF FolderOf(cache, fol.uid).type \notin SharedTypes THEN {}
    ELSE {e \in UNION {Range(sf.records) :
                         sf \in {x \in Range(cache.shared_folder_cache) :
                                    x.shared_folder_uid = OwnerUid(FolderOf(cache, fol.uid))}} :
             e.record_uid = rec.uid}

\* the (record, declared folder) pairs with an entry in a live access list
AclPairs ==
    {p \in UNION {{<<r, j>> : j \in DOMAIN records[r].folders} : r \in DOMAIN records} :
        LiveEntries(records[p[1]], records[p[1]].folders[p[2]]) # {}}

\* the pairs whose live entry has another can_share or can_edit than declared
AclPairsToUpdate ==
    {p \in AclPairs :
        LET fol == records[p[1]].folders[p[2]]
        IN \E e \in LiveEntries(records[p[1]], fol) :
              e.can_share # fol.can_share \/ e.can_edit # fol.can_edit}

\* prepare_record_permission has just returned
AfterRecordPermission == stage = "record_permission" /\ pc = "execute"

\* C5: prepare_record_permission emits one shared_folder_update for each
\* (record, declared folder) pair whose live access entry differs from the
\* declared can_share or can_edit, carrying the declared values, and none
\* for a pair whose entry equals them
C5_AclNoOp ==
    AfterRecordPermission =>
        /\ Len(requests) = Cardinality(AclPairsToUpdate)
        /\ \A i \in DOMAIN requests :
              /\ requests[i].command = "shared_folder_update"
              /\ \E p \in AclPairsToUpdate :
                    LET fol == records[p[1]].folders[p[2]]
                        sf_uid == OwnerUid(FolderOf(cache, fol.uid))
                    IN /\ requests[i].shared_folder_uid = sf_uid
                       /\ requests[i].update_records =
                              <<[record_uid |-> records[p[1]].uid,
                                 shared_folder_uid |-> sf_uid,
                                 can_edit |-> fol.can_edit,
                                 can_share |-> fol.can_share]>>

\* a record sits in a shared folder with can_share set, the folder is
\* declared with the same flags, and nothing is emitted
C5_Witness ==
    /\ AfterRecordPermission
    /\ requests = <<>>
    /\ \E p \in AclPairs \ AclPairsToUpdate : records[p[1]].folders[p[2]].can_share

\* the remote calls of execute_batch recorded so far
Executes == {i \in DOMAIN trace : trace[i].call = "execute"}

\* what execute_batch holds to submit after remote call i: the chunk of the
\* next call when there is one, the queue when call i is the last so far
NextUp(i) ==
    IF i < Len(trace) /\ trace[i + 1].call = "execute" THEN trace[i + 1].chunk
    ELSE IF i = Len(trace) THEN queue
    ELSE <<>>

\* C6: after a 'success' answer with k results for a chunk of n operations,
\* 1 <= k < n, the operations k+1..n of the chunk are what execute_batch
\* submits next, in their order, ahead of the operations behind the chunk
C6_PartialRetryOrder ==
    \A i \in Executes :
        (trace[i].rs.kind = "success" /\ trace[i].rs.k >= 1
            /\ trace[i].rs.k < Len(trace[i].chunk)) =>
            LET tail == SubSeq(trace[i].chunk, trace[i].rs.k + 1, Len(trace[i].chunk))
                next == NextUp(i)
            IN /\ Len(next) >= Len(tail)
               /\ SubSeq(next, 1, Len(tail)) = tail
               /\ i < Len(trace) =>
                      SubSeq(next, Len(tail) + 1, Len(next))
                        = SubSeq(trace[i].rest, 1, Len(next) - Len(tail))

\* 60 results came for a chunk of chunk_size operations, and the next chunk
\* was the 40 left over followed by 60 from behind
C6_Witness ==
    \E i \in Executes :
        /\ Len(trace[i].chunk) = chunk_size
        /\ trace[i].rs.kind = "success" /\ trace[i].rs.k = 60
        /\ i < Len(trace) /\ trace[i + 1].call = "execute"
        /\ Len(trace[i + 1].chunk) = chunk_size

\* remote calls i and j belong to one execute_batch call: no sync_down
\* lies between them
SameCall(i, j) == \A m \in i..j : trace[m].call # "sync_down"

\* the execute_batch call of remote call i has not returned
Running(i) == pc = "loop" /\ SameCall(i, Len(trace))

\* C9: when the remote call for a chunk raises, no operation of the chunk is
\* in a later chunk of this execute_batch call, the operations behind the
\* chunk are what is submitted next, in their order, and when execute_batch
\* returns each of them has been submitted
C9_RaiseDropsChunk ==
    \A i \in Executes :
        trace[i].rs.kind = "raise" =>
            /\ \A j \in Executes :
                  (j > i /\ SameCall(i, j)) =>
                      Range(trace[j].chunk) \cap Range(trace[i].chunk) = {}
            /\ Running(i) => Range(queue) \cap Range(trace[i].chunk) = {}
            /\ i = Len(trace) => queue = trace[i].rest
            /\ i < Len(trace) =>
                  /\ NextUp(i) = SubSeq(trace[i].rest, 1, Len(NextUp(i)))
                  /\ trace[i].rest # <<>> => NextUp(i) # <<>>
            /\ ~Running(i) =>
                  \A op \in Range(trace[i].rest) :
                      \E j \in Executes :
                          j > i /\ SameCall(i, j) /\ op \in Range(trace[j].chunk)

\* the call for a chunk of chunk_size operations raised with operations
\* behind it, and execute_batch has returned
C9_Witness ==
    /\ pc = "done"
    /\ \E i \in Executes :
          /\ trace[i].rs.kind = "raise"
          /\ Len(trace[i].chunk) = chunk_size
          /\ trace[i].rest # <<>>

\* the input is one record with one folder of a plain two-segment path and
\* no ownership boundary, no shared folder is declared, and the vault was
\* empty
OneRecordTwoSegments ==
    /\ vault0 = EmptyVault
    /\ folders = <<>>
    /\ Len(records) = 1
    /\ Len(records[1].folders) = 1
    /\ records[1].folders[1].domain = <<>>
    /\ Len(records[1].folders[1].path) = 2

\* C7: importing that input with all batches applied submits a folder_add
\* of a user_folder without parent_uid for the first segment, a folder_add
\* of a user_folder below it for the second, then one record_add in the
\* second folder with the record key wrapped under the data key, and
\* nothing else
C7_PlainPathExample ==
    (OneRecordTwoSegments /\ run = 1 /\ FullyApplied(1)) =>
        /\ \A i \in DOMAIN sent :
              /\ sent[i].op.command \in {"folder_add", "record_add"}
              /\ sent[i].op.folder_type = UserFolderType
        /\ pc = "done" =>
              /\ Len(sent) = 3
              /\ sent[1].op.command = "folder_add"
              /\ sent[1].op.parent_uid = NoUid
              /\ sent[1].op.data.plain = records[1].folders[1].path[1]
              /\ sent[2].op.command = "folder_add"
              /\ sent[2].op.parent_uid = sent[1].op.folder_uid
              /\ sent[2].op.parent_uid # NoUid
              /\ sent[2].op.data.plain = records[1].folders[1].path[2]
              /\ sent[3].op.command = "record_add"
              /\ sent[3].op.folder_uid = sent[2].op.folder_uid
              /\ sent[3].op.record_key.alg = "aes"
              /\ sent[3].op.record_key.key = DataKey
              /\ sent[3].op.folder_key = NoCipher
              /\ sent[3].op.data.plain =
                    [title |-> records[1].title, secret1 |-> records[1].login,
                     secret2 |-> records[1].password]

\* the import of such a record with a login is over
C7_Witness ==
    /\ OneRecordTwoSegments /\ run = 1 /\ pc = "done" /\ FullyApplied(1)
    /\ records[1].login # <<>>
    /\ Len(sent) = 3

\* the place of a stage in the order of _import
StageRank(s) ==
    CASE s = "shared_folder_add" -> 1
      [] s = "folder_add" -> 2
      [] s = "record_add" -> 3
      [] s = "record_link" -> 4
      [] s = "record_permission" -> 5
      [] OTHER -> 6

\* the commands a stage submits
StageCommands(s) ==
    CASE s = "shared_folder_add" -> {"folder_add", "shared_folder_update"}
      [] s = "folder_add" -> {"folder_add"}
      [] s = "record_add" -> {"record_add"}
      [] s = "record_link" -> {"move"}
      [] s = "record_permission" -> {"shared_folder_update"}
      [] OTHER -> {}

\* C8: in one run the stages submit in the order shared folders, record
\* folders, record_add, move, record permissions; a stage computes its
\* operations only with the queue of the stage before drained, each of its
\* operations submitted, and the snapshot refreshed; so no folder_add
\* follows a record_add and no record_add follows a move or a record
\* permission update
C8_StageOrder ==
    /\ \A i, j \in DOMAIN sent :
          (i < j /\ sent[i].run = sent[j].run) =>
              /\ StageRank(sent[i].stage) <= StageRank(sent[j].stage)
              /\ sent[i].op.command = "record_add" => sent[j].op.command # "folder_add"
              /\ sent[i].op.command = "move" => sent[j].op.command # "record_add"
              /\ (sent[i].op.command = "shared_folder_update"
                    /\ sent[i].stage = "record_permission") =>
                      sent[j].op.command # "record_add"
    /\ \A i \in DOMAIN sent : sent[i].op.command \in StageCommands(sent[i].stage)
    /\ pc \in {"prepare", "execute", "done"} =>
          /\ queue = <<>>
          /\ cache = Snapshot(server)
    /\ pc = "execute" =>
          \A i \in DOMAIN sent : sent[i].run = run => StageRank(sent[i].stage) < StageRank(stage)
    /\ pc \in {"prepare", "done"} =>
          \A k \in DOMAIN requests :
              \E i \in DOMAIN sent : sent[i].run = run /\ sent[i].op = requests[k]

\* a run is over in which all five stages submitted operations and one
\* remote call raised
C8_Witness ==
    /\ pc = "done"
    /\ {sent[i].stage : i \in {k \in DOMAIN sent : sent[k].run = run}}
          = {"shared_folder_add", "folder_add", "record_add", "record_link",
             "record_permission"}
    /\ \E i \in Executes : trace[i].run = run /\ trace[i].rs.kind = "raise"

\* the uids of the records of snapshot c with the fingerprint of import
\* record rec
Matches(c, rec) ==
    {x.record_uid : x \in {y \in Range(c.record_cache) :
        RecordDigest(y.title, y.login, y.password)
            = RecordDigest(rec.title, rec.login, rec.password)}}

\* prepare_record_add has just returned
AfterRecordAdd == stage = "record_add" /\ pc = "execute"

\* C10: prepare_record_add gives an import record whose fingerprint a record
\* of the snapshot has the uid of such a record and emits no record_add for
\* it; every record_add is for a uid the snapshot does not hold, and no
\* other operation of the run carries record data
C10_ExistingReused ==
    /\ AfterRecordAdd =>
          /\ \A r \in DOMAIN records :
                Matches(cache, records[r]) # {} =>
                    /\ records[r].uid \in Matches(cache, records[r])
                    /\ \A i \in DOMAIN requests :
                          requests[i].record_uid # records[r].uid
          /\ \A i \in DOMAIN requests :
                /\ requests[i].command = "record_add"
                /\ ~InRecordCache(cache, requests[i].record_uid)
          /\ Len(requests) = Cardinality({r \in DOMAIN records :
                                             Matches(cache, records[r]) = {}})
    /\ \A i \in DOMAIN sent :
          IF sent[i].op.command = "record_add"
          THEN /\ sent[i].stage = "record_add"
               /\ \A x \in Range(vault0.records) : x.record_uid # sent[i].op.record_uid
          ELSE sent[i].op.command \in {"move", "shared_folder_update"} =>
                  "data" \notin DOMAIN sent[i].op

\* of two import records one has the fingerprint of a record of the vault
\* and the other has not
C10_Witness ==
    /\ AfterRecordAdd /\ run = 1
    /\ Len(records) = 2 /\ Len(requests) = 1
    /\ \E r \in DOMAIN records :
          Matches(cache, records[r]) # {} /\ InRecordCache(cache, records[r].uid)

\* C11: no exception leaves a stage of the import: on every snapshot and
\* whatever the remote calls answer, each prepare_* call and each
\* execute_batch call returns and the run goes on to its end
C11_NothingFatal == pc # "raised"

\* the fingerprint of an import record
Fingerprint(rec) == RecordDigest(rec.title, rec.login, rec.password)

\* C12: two import records of one run with one fingerprint that no record
\* of the snapshot has are one object to prepare_record_add: one record_add
\* is emitted for them and both get the same uid
C12_FingerprintIdentity ==
    AfterRecordAdd =>
        \A r1, r2 \in DOMAIN records :
            (r1 # r2 /\ Fingerprint(records[r1]) = Fingerprint(records[r2])
                /\ Matches(cache, records[r1]) = {}) =>
                /\ records[r1].uid = records[r2].uid
                /\ Cardinality({i \in DOMAIN requests :
                        requests[i].record_uid \in {records[r1].uid, records[r2].uid}}) = 1

\* the policy the help text of --policy documents as the default
DefaultPolicy == [p_length |-> 12, p_lower |-> 2, p_upper |-> 2, p_digits |-> 2, p_special |-> 0]

\* C13: password-report run with no --policy and none of --length, --upper,
\* --lower, --digits, --special computes its report with the documented
\* default policy 12,2,2,2,0
C13_DefaultPolicy ==
    (kwargs = NoArgs /\ report # NotRun) =>
        /\ report.status = "reported"
        /\ report.policy = DefaultPolicy
        /\ report.table = Table(Strengths, DefaultPolicy)

\* operation op of remote call i is still to be submitted by the running
\* execute_batch call, or was submitted again by a later remote call of it
SubmittedAgain(i, op) ==
    \/ Running(i) /\ op \in Range(queue)
    \/ \E j \in Executes : j > i /\ SameCall(i, j) /\ op \in Range(trace[j].chunk)

\* C14: after a 'success' answer with fewer results than the chunk has
\* operations, an empty results list included, every operation that got no
\* result is submitted again later in the same execute_batch call
C14_NoOperationLost ==
    \A i \in Executes :
        (trace[i].rs.kind = "success" /\ trace[i].rs.k < Len(trace[i].chunk)) =>
            \A m \in (trace[i].rs.k + 1)..Len(trace[i].chunk) :
                SubmittedAgain(i, trace[i].chunk[m])

\* the operations submitted by the remote calls before call i
Seen(i) == UNION {Range(trace[j].chunk) : j \in {e \in Executes : e < i}}

\* the operations of the chunk of call i that are submitted for the first
\* time are, in their order, the next operations of the input list
FirstInInputOrder(i) ==
    LET chunk == trace[i].chunk
        seen == Seen(i)
        new == {m \in DOMAIN chunk : chunk[m] \notin seen}
    IN \A m \in new :
          /\ Cardinality(seen) + Cardinality({x \in new : x <= m}) <= Len(requests)
          /\ chunk[m] = requests[Cardinality(seen) + Cardinality({x \in new : x <= m})]

\* a remote call is made in this step
Submits == Len(trace') = Len(trace) + 1 /\ trace'[Len(trace')].call = "execute"

\* C15: every request of execute_batch carries between 1 and 100 operations,
\* which are the first operations of the queue as it is then; the order in
\* which the operations of the input list are submitted for the first time is
\* the order of the list; and when execute_batch returns every one of them
\* has been submitted
C15_Chunking ==
    /\ [][Submits =>
            LET chunk == trace'[Len(trace')].chunk
            IN /\ Len(chunk) >= 1 /\ Len(chunk) <= 100 /\ Len(chunk) <= Len(queue)
               /\ chunk = SubSeq(queue, 1, Len(chunk))
               /\ Len(sent') = Len(sent) + Len(chunk)
               /\ \A m \in DOMAIN chunk : sent'[Len(sent) + m].op = chunk[m]]_vars
    /\ [](\A i \in Executes : FirstInInputOrder(i))
    /\ [](pc = "done" => \A m \in DOMAIN requests :
                            \E i \in DOMAIN sent : sent[i].op = requests[m])

\* execute_batch has returned from a list of more than two chunks, one of its
\* calls got results for a part of its chunk and a later one a full chunk
C15_Witness ==
    /\ pc = "done" /\ Len(requests) > 2 * chunk_size
    /\ \E i \in Executes, j \in Executes :
          /\ i < j
          /\ trace[i].rs.kind = "success" /\ trace[i].rs.k >= 1
          /\ trace[i].rs.k < Len(trace[i].chunk)
          /\ Len(trace[j].chunk) = chunk_size

\* api.sync_down is called in this step
Syncs == Len(trace') = Len(trace) + 1 /\ trace'[Len(trace')].call = "sync_down"

\* execute_batch returns in this step
Returns == pc \in {"execute", "loop"} /\ pc' \notin {"execute", "loop"}

\* C16: an execute_batch call on a list that is not empty calls sync_down
\* once, as its last step, when no operation is left in the queue and never
\* between two chunks, whatever the answers to its chunks were; a call on an
\* empty list makes no remote call and no refresh
C16_OneRefresh ==
    /\ [][(Returns /\ requests # <<>>) => (Syncs /\ pc = "loop" /\ queue = <<>>)]_vars
    /\ [][Syncs => (Returns /\ requests # <<>> /\ trace[Len(trace)].call = "execute")]_vars
    /\ [][(pc = "execute" /\ requests = <<>>) =>
             (Returns /\ trace' = trace /\ sent' = sent /\ cache' = cache /\ server' = server)]_vars
    /\ [](\A i \in DOMAIN trace :
            trace[i].call = "sync_down" =>
                /\ i > 1 /\ trace[i - 1].call = "execute"
                /\ i < Len(trace) => trace[i + 1].run > trace[i].run
                                        \/ trace[i + 1].stage # trace[i].stage)

\* execute_batch has returned from a list of several chunks, one of its
\* remote calls raised, another was answered without result, and the
\* refresh is the last call of all
C16_Witness ==
    /\ pc = "done" /\ Len(requests) > chunk_size
    /\ trace[Len(trace)].call = "sync_down"
    /\ \E i \in Executes, j \in Executes :
          /\ trace[i].rs.kind = "raise"
          /\ trace[j].rs.kind = "fail" \/ (trace[j].rs.kind = "success" /\ trace[j].rs.k = 0)
          /\ Cardinality(Executes) >= 3

\* execute_batch has returned from an empty list
C16_WitnessEmpty == pc = "done" /\ requests = <<>> /\ stage = "end" /\ trace = <<>>

RECURSIVE DeclaredFolders(_, _)
\* the declared folders of records r.. in the order prepare_folder_add
\* visits them
DeclaredFolders(recs, r) ==
    IF r > Len(recs) THEN <<>> ELSE recs[r].folders \o DeclaredFolders(recs, r + 1)

\* the shared folder that owns a folder of the snapshot, NoUid for a folder
\* outside the shared folders
OwnerOf(f) ==
    IF f.type = SharedFolderType THEN f.uid
    ELSE IF f.type = SharedFolderFolderType THEN f.shared_folder_uid
    ELSE NoUid

\* the folder tree the walk starts from, and the walk at the root with none
\* of the emitted folder_add operations attributed to a segment yet
TreeOf(c) ==
    [nodes |-> {[uid |-> c.folder_cache[i].uid, name |-> Lower(c.folder_cache[i].name),
                 parent_uid |-> c.folder_cache[i].parent_uid,
                 type |-> c.folder_cache[i].type,
                 owner |-> OwnerOf(c.folder_cache[i])] : i \in DOMAIN c.folder_cache},
     used |-> 0, created |-> <<>>, ends |-> <<>>, short |-> FALSE,
     at |-> NoUid, at_type |-> RootFolderType, owner |-> NoUid]

\* one segment of the walk over the tree: a node named seg below the current
\* node is entered; when there is none the next folder_add of list ops is
\* taken as the one that creates it
TreeStep(t, ops, seg, boundary) ==
    LET hits == {n \in t.nodes : n.name = Lower(seg) /\ n.parent_uid = t.at}
    IN IF hits # {}
       THEN LET n == CHOOSE h \in hits : TRUE
            IN [t EXCEPT !.at = n.uid, !.at_type = n.type, !.owner = n.owner]
       ELSE IF t.used >= Len(ops) THEN [t EXCEPT !.short = TRUE]
       ELSE LET q == ops[t.used + 1]
                owner == IF q.folder_type = SharedFolderType THEN q.folder_uid
                         ELSE IF q.folder_type = SharedFolderFolderType THEN t.owner
                         ELSE NoUid
            IN [t EXCEPT !.nodes = @ \cup {[uid |-> q.folder_uid, name |-> Lower(seg),
                                            parent_uid |-> t.at, type |-> q.folder_type,
                                            owner |-> owner]},
                         !.used = @ + 1,
                         !.created = Append(@, [op |-> t.used + 1, seg |-> seg,
                                                parent_uid |-> t.at,
                                                parent_type |-> t.at_type,
                                                boundary |-> boundary,
                                                owner |-> t.owner]),
                         !.at = q.folder_uid, !.at_type = q.folder_type, !.owner = owner]

RECURSIVE TreeSegments(_, _, _, _, _)
\* the segments i.. of segs, of which segment boundary ends the domain
TreeSegments(t, ops, segs, boundary, i) ==
    IF i > Len(segs) THEN t
    ELSE TreeSegments(TreeStep(t, ops, segs[i], i = boundary), ops, segs, boundary, i + 1)

RECURSIVE TreeWalk(_, _, _, _)
\* the declared folders j.. walked from the root, domain before path, each
\* leaving the uid it ends at
TreeWalk(t, ops, fols, j) ==
    IF j > Len(fols) THEN t
    ELSE LET t0 == [t EXCEPT !.at = NoUid, !.at_type = RootFolderType, !.owner = NoUid]
             t1 == TreeSegments(t0, ops, fols[j].domain \o fols[j].path,
                                Len(fols[j].domain), 1)
         IN TreeWalk([t1 EXCEPT !.ends = Append(@, t1.at)], ops, fols, j + 1)

\* the walk of the declared folders of the run over snapshot and emitted
\* folder_add operations
Walked == TreeWalk(TreeOf(cache), requests, DeclaredFolders(records, 1), 1)

\* the tier the node of a created segment is to get
TierOf(boundary, parent_type) ==
    IF boundary THEN SharedFolderType
    ELSE IF parent_type \in SharedTypes THEN SharedFolderFolderType
    ELSE UserFolderType

\* C17: a node that prepare_folder_add creates is a shared_folder when its
\* segment is the last of the folder's domain, else a shared_folder_folder
\* when its parent is a shared_folder or a shared_folder_folder, else a
\* user_folder
C17_NewNodeTier ==
    AfterFolderAdd =>
        \A e \in DOMAIN Walked.created :
            requests[Walked.created[e].op].folder_type
                = TierOf(Walked.created[e].boundary, Walked.created[e].parent_type)

\* the declared folders have the uids their walks end at
EndsMatch ==
    LET fols == DeclaredFolders(records, 1)
    IN /\ Len(Walked.ends) = Len(fols)
       /\ \A j \in DOMAIN fols : fols[j].uid = Walked.ends[j]

\* C18: prepare_folder_add walks the segments of a declared folder from the
\* root, the domain's before the path's and each looked up by name below the
\* folder the segment before it resolved to; a segment that is found is
\* entered, a segment that is not gets the next folder_add, named after it
\* and with a uid of its own; the folder's uid is the uid of its last
\* segment; a folder whose segments all exist adds no operation
C18_FolderWalk ==
    AfterFolderAdd =>
        /\ ~Walked.short
        /\ Walked.used = Len(requests)
        /\ \A e \in DOMAIN Walked.created :
              LET q == requests[Walked.created[e].op]
              IN /\ q.command = "folder_add"
                 /\ q.data.plain = Walked.created[e].seg
                 /\ q.folder_uid \notin {cache.folder_cache[i].uid : i \in DOMAIN cache.folder_cache}
                 /\ \A d \in DOMAIN Walked.created :
                        d # e => requests[Walked.created[d].op].folder_uid # q.folder_uid
        /\ \A e \in DOMAIN Walked.created :
              LET at == Walked.created[e]
                  q == requests[at.op]
              IN InFolderCache(cache, at.parent_uid) =>
                    /\ at.parent_type = FolderOf(cache, at.parent_uid).type
                    /\ at.parent_type = UserFolderType => q.key.key = DataKey
                    /\ (at.parent_type \in SharedTypes /\ InSharedFolderCache(cache, at.owner))
                          => /\ q.folder_type = SharedFolderFolderType
                             /\ q.key.key = SharedFolderOf(cache, at.owner).shared_folder_key
        /\ EndsMatch
        /\ \A r \in DOMAIN records : \A j \in DOMAIN records[r].folders :
              LET fol == records[r].folders[j]
              IN (/\ MissingSegments(cache, fol.domain \o fol.path, 1, NoUid) = 0
                  /\ Len(records) = 1 /\ Len(records[r].folders) = 1)
                     => (requests = <<>> /\ Walked.created = <<>>)

\* a folder with domain and path was walked on a snapshot that holds its
\* first segment only: the rest was created, and the folder ends at the last
\* of the created nodes
C18_Witness ==
    /\ AfterFolderAdd
    /\ Len(records) = 1 /\ Len(records[1].folders) = 1
    /\ Len(records[1].folders[1].domain) = 1 /\ Len(records[1].folders[1].path) = 2
    /\ cache.folder_cache # <<>>
    /\ Len(requests) = 2
    /\ records[1].folders[1].uid = requests[2].folder_uid

\* the key of shared folder uid: the cached one when the snapshot holds the
\* shared folder, the one generated for it when list ops creates it, NoKey
\* when neither does
SharedFolderKey(c, ops, uid) ==
    IF InSharedFolderCache(c, uid) THEN SharedFolderOf(c, uid).shared_folder_key
    ELSE IF \E i \in DOMAIN ops : ops[i].folder_uid = uid /\ ops[i].folder_type = SharedFolderType
    THEN LET i == CHOOSE k \in DOMAIN ops :
                    ops[k].folder_uid = uid /\ ops[k].folder_type = SharedFolderType
         IN ops[i].key.plain
    ELSE NoKey

\* C19: a folder_add of type shared_folder_folder names the shared folder
\* that owns it in shared_folder_uid and carries its key wrapped under that
\* shared folder's key, the one generated in this run or the cached one; a
\* folder_add of type user_folder or shared_folder carries its key wrapped
\* under the master key of the vault
C19_KeyWrap ==
    AfterFolderAdd =>
        \A e \in DOMAIN Walked.created :
            LET at == Walked.created[e]
                q == requests[at.op]
            IN /\ q.key.alg = "aes"
               /\ IF q.folder_type = SharedFolderFolderType
                  THEN /\ at.owner # NoUid
                       /\ q.shared_folder_uid = at.owner
                       /\ SharedFolderKey(cache, requests, at.owner) # NoKey
                       /\ q.key.key = SharedFolderKey(cache, requests, at.owner)
                  ELSE q.key.key = DataKey

\* prepare_record_add is over, by return or by exception
RecordAddOver == stage = "record_add" /\ pc \in {"execute", "raised"}

\* the uid of the first declared folder of import record rec, NoUid when it
\* declares none
PrimaryFolder(rec) == IF rec.folders = <<>> THEN NoUid ELSE rec.folders[1].uid

\* record_add q places its record as the snapshot's folder of uid folder_uid
\* requires
WrapsFor(c, q, folder_uid) ==
    /\ q.record_key.alg = "aes" /\ q.record_key.key = DataKey
    /\ q.data.key = q.record_key.plain
    /\ IF InFolderCache(c, folder_uid) /\ FolderOf(c, folder_uid).type \in SharedTypes
       THEN /\ q.folder_uid = folder_uid
            /\ q.folder_type = FolderOf(c, folder_uid).type
            /\ InSharedFolderCache(c, OwnerOf(FolderOf(c, folder_uid)))
            /\ q.folder_key # NoCipher
            /\ q.folder_key.alg = "aes"
            /\ q.folder_key.plain = q.record_key.plain
            /\ q.folder_key.key
                 = SharedFolderOf(c, OwnerOf(FolderOf(c, folder_uid))).shared_folder_key
       ELSE /\ q.folder_type = UserFolderType
            /\ q.folder_key = NoCipher
            /\ q.folder_uid = IF InFolderCache(c, folder_uid) THEN folder_uid ELSE NoUid

\* C20: the record_add of a new record whose first declared folder is a
\* shared_folder or shared_folder_folder of the snapshot carries that
\* folder's uid and type and, as folder_key, the record key wrapped under the
\* key of the shared folder that owns the folder; any other new record gets
\* folder_type user_folder, no folder_key, and a folder_uid only when its
\* first folder is a folder of the snapshot; record_key is always the record
\* key wrapped under the master key of the vault
C20_RecordWrapTarget ==
    RecordAddOver =>
        \A r \in DOMAIN records :
            Matches(cache, records[r]) = {} =>
                \E i \in DOMAIN requests :
                    /\ requests[i].command = "record_add"
                    /\ requests[i].data.plain.title = records[r].title
                    /\ requests[i].data.plain.secret1 = records[r].login
                    /\ requests[i].data.plain.secret2 = records[r].password
                    /\ WrapsFor(cache, requests[i], PrimaryFolder(records[r]))

\* the teams of the shared folder that owns the folder record_add q names
TeamsOf(c, q) == SharedFolderOf(c, OwnerOf(FolderOf(c, q.folder_uid))).teams

\* C21: a team_uid on a record_add is the uid of a team of the shared folder
\* of the record's first folder that has manage_records; when none of the
\* teams of that shared folder has, the record_add carries no team_uid
C21_OwningTeam ==
    AfterRecordAdd =>
        \A i \in DOMAIN requests :
            LET q == requests[i]
            IN IF q.folder_type \in SharedTypes
               THEN /\ q.team_uid # NoUid =>
                          \E k \in DOMAIN TeamsOf(cache, q) :
                              /\ TeamsOf(cache, q)[k].team_uid = q.team_uid
                              /\ TeamsOf(cache, q)[k].manage_records
                    /\ (\A k \in DOMAIN TeamsOf(cache, q) : ~TeamsOf(cache, q)[k].manage_records)
                          => q.team_uid = NoUid
               ELSE q.team_uid = NoUid

\* prepare_record_link has just returned
AfterRecordLink == stage = "record_link" /\ pc = "execute"

\* the folders of snapshot c that hold record record_uid, NoUid for the root
Holders(c, record_uid) ==
    {l.folder_uid : l \in {x \in Range(c.subfolder_record_cache) : x.record_uid = record_uid}}

\* the moves of list ops that link record record_uid into folder folder_uid
LinksInto(ops, record_uid, folder_uid) ==
    {i \in DOMAIN ops :
        /\ ops[i].command = "move" /\ ops[i].to_uid = folder_uid
        /\ ops[i].link /\ Len(ops[i].move) = 1
        /\ ops[i].move[1].uid = record_uid /\ ops[i].move[1].cascade}

\* C22: for an import record whose uid is a record of the snapshot and each
\* of its declared folders that is a folder of the snapshot,
\* prepare_record_link emits a move into the folder with link and cascade
\* set when the folder does not hold the record, also when the record is
\* held by the root only, and none when the folder holds it
C22_LinkEmission ==
    AfterRecordLink =>
        \A r \in DOMAIN records :
            (records[r].uid # NoUid /\ InRecordCache(cache, records[r].uid)) =>
                \A j \in DOMAIN records[r].folders :
                    LET fol == records[r].folders[j]
                        moves == LinksInto(requests, records[r].uid, fol.uid)
                    IN (fol.uid # NoUid /\ InFolderCache(cache, fol.uid)) =>
                          IF fol.uid \in Holders(cache, records[r].uid)
                          THEN moves = {}
                          ELSE Cardinality(moves)
                                 = Cardinality({k \in DOMAIN records[r].folders :
                                                   records[r].folders[k].uid = fol.uid})

\* the transition keys a link of record record_uid from folder src to folder
\* dst of snapshot c is to carry
KeysFor(c, record_uid, src, dst) ==
    LET record_key == RecordOf(c, record_uid).record_key_unencrypted
    IN IF dst.type \in SharedTypes
          /\ (src.type \notin SharedTypes \/ OwnerOf(src) # OwnerOf(dst))
       THEN <<[uid |-> record_uid,
               key |-> [alg |-> "aes", plain |-> record_key,
                        key |-> SharedFolderOf(c, OwnerOf(dst)).shared_folder_key]]>>
       ELSE IF src.type \in SharedTypes /\ dst.type \notin SharedTypes
       THEN <<[uid |-> record_uid,
               key |-> [alg |-> "aes", plain |-> record_key, key |-> DataKey]]>>
       ELSE <<>>

\* C23: a move of prepare_record_link carries at most one transition key:
\* the record key wrapped under the key of the destination's shared folder
\* when the destination is shared and the source is not or belongs to
\* another shared folder, the record key wrapped under the master key when
\* the source is shared and the destination is not, and none when both are
\* of one shared folder or both are not shared
C23_LinkRewrap ==
    AfterRecordLink =>
        \A i \in DOMAIN requests :
            LET q == requests[i]
            IN /\ Len(q.transition_keys) <= 1
               /\ Len(q.move) = 1
               /\ InFolderCache(cache, q.to_uid) /\ InFolderCache(cache, q.move[1].from_uid)
               /\ q.transition_keys
                    = KeysFor(cache, q.move[1].uid, FolderOf(cache, q.move[1].from_uid),
                              FolderOf(cache, q.to_uid))

\* two links of one record held by a folder of shared folder a: into shared
\* folder c with the record key under the key of c, and into the other
\* folder of a with no key
C23_Witness ==
    /\ AfterRecordLink /\ Len(requests) = 2
    /\ \E i, j \in DOMAIN requests :
          /\ requests[i].to_uid = 6 /\ requests[i].move[1].from_type \in SharedTypes
          /\ Len(requests[i].transition_keys) = 1
          /\ requests[i].transition_keys[1].key.key = 20
          /\ requests[j].to_type \in SharedTypes /\ requests[j].to_uid \in {2, 3}
          /\ requests[j].transition_keys = <<>>

\* prepare_shared_folder_add has just returned
AfterSharedFolderAdd == stage = "shared_folder_add" /\ pc = "execute"

RECURSIVE SharedTarget(_, _, _, _, _)
\* the uid segments i.. of segs lead to from parent_uid, through folders of
\* snapshot c and folders that list ops adds; NoUid when a segment is neither
SharedTarget(c, ops, segs, i, parent_uid) ==
    IF i > Len(segs) THEN parent_uid
    ELSE LET old == ChildNamed(c, segs[i], parent_uid)
             new == {k \in DOMAIN ops :
                        /\ ops[k].command = "folder_add"
                        /\ Lower(ops[k].data.plain) = Lower(segs[i])
                        /\ ops[k].parent_uid = parent_uid}
         IN IF old # NoUid THEN SharedTarget(c, ops, segs, i + 1, old)
            ELSE IF new # {}
            THEN SharedTarget(c, ops, segs, i + 1, ops[CHOOSE k \in new : TRUE].folder_uid)
            ELSE NoUid

\* the shared_folder_update operations of list ops for declared shared
\* folder fol
UpdatesOf(c, ops, fol) ==
    {i \in DOMAIN ops :
        /\ ops[i].command = "shared_folder_update"
        /\ fol.path # <<>>
        /\ ops[i].shared_folder_uid = SharedTarget(c, ops, fol.path, 1, NoUid)}

\* the teams of team cache tc named like name, whatever the case
TeamsNamed(tc, name) == {t.team_uid : t \in {x \in Range(tc) : Lower(x.name) = Lower(name)}}

\* C24: a declared permission with no uid whose name is the name of a team,
\* whatever the case, is granted to that team through add_teams, also when
\* the name parses as an address; only a name of no team that parses as an
\* address is granted to a user
C24_TeamFirst ==
    AfterSharedFolderAdd =>
        \A j \in DOMAIN folders : \A k \in DOMAIN folders[j].permissions :
            LET perm == folders[j].permissions[k]
                named == TeamsNamed(teams, perm.name)
            IN (perm.uid = NoUid /\ UpdatesOf(cache, requests, folders[j]) # {}) =>
                  \E i \in UpdatesOf(cache, requests, folders[j]) :
                      IF named # {}
                      THEN /\ \E e \in Range(requests[i].add_teams) : e.team_uid \in named
                           /\ \A e \in Range(requests[i].add_users) :
                                  e.username # Lower(perm.name)
                      ELSE \A e \in Range(requests[i].add_users) :
                              e.username = Lower(perm.name) => parseaddr(perm.name) # ""

\* the addresses a call for declared shared folders fols owes a lookup: the
\* lower-cased address of every grantee whose name parses as one and who is
\* not user
OwedLookup(fols, user) ==
    {Lower(parseaddr(perm.name)) :
        perm \in {q \in AllPermissions(fols) :
                     /\ parseaddr(q.name) # ""
                     /\ Lower(parseaddr(q.name)) # Lower(user)}}

\* the calls the step has added to trace
NewCalls == SubSeq(trace', Len(trace) + 1, Len(trace'))

\* C25: a call of prepare_shared_folder_add asks for public keys at most
\* once, for the addresses of all the grantees of all the declared folders
\* except the operator, and not at all when there is no such grantee
C25_OneLookup ==
    [][(pc = "prepare" /\ stage = "shared_folder_add" /\ pc' # "prepare") =>
          LET owed == OwedLookup(folders, User)
              asked == {i \in DOMAIN NewCalls : NewCalls[i].call = "public_keys"}
          IN /\ Cardinality(asked) <= 1
             /\ owed = {} => asked = {}
             /\ \A i \in asked : NewCalls[i].key_owners = owed]_vars

\* prepare_shared_folder_add is over, returned or left by an exception
SharedFolderAddOver == stage = "shared_folder_add" /\ pc \in {"execute", "raised"}

\* whether the public_keys call of the current stage, if any, was answered
Answered ==
    \A i \in DOMAIN trace :
        (trace[i].call = "public_keys" /\ trace[i].run = run /\ trace[i].stage = stage)
            => trace[i].answered

\* the public key the lookup has brought for name, NoKey when none
KeyFound(name) ==
    IF Answered /\ Lower(name) \in DOMAIN directory THEN directory[Lower(name)] ELSE NoKey

\* a grantee that cannot be resolved: a user, not the operator, for whom no
\* public key has come, or a team name that no team of tc has
Unresolvable(tc, perm) ==
    /\ ~InTeamCache(tc, perm.uid)
    /\ TeamsNamed(tc, perm.name) = {}
    /\ \/ parseaddr(perm.name) = ""
       \/ Lower(perm.name) # Lower(User) /\ KeyFound(perm.name) = NoKey

\* a grantee that is resolved whatever the order of resolution: a team named
\* by uid, the operator, or a user whose public key has come
Resolvable(tc, perm) ==
    \/ perm.uid # NoUid /\ InTeamCache(tc, perm.uid)
    \/ /\ ~InTeamCache(tc, perm.uid)
       /\ TeamsNamed(tc, perm.name) = {}
       /\ parseaddr(perm.name) # ""
       /\ Lower(perm.name) = Lower(User) \/ KeyFound(perm.name) # NoKey

RECURSIVE SharedSkip(_, _, _, _)
\* whether the walk of prepare_shared_folder_add over segments i.. of segs
\* from parent_uid meets a folder of snapshot c of another type than it
\* needs: shared_folder for the last segment, user_folder for the others
SharedSkip(c, segs, i, parent_uid) ==
    IF i > Len(segs) THEN FALSE
    ELSE LET uid == ChildNamed(c, segs[i], parent_uid)
         IN IF uid = NoUid THEN FALSE
            ELSE \/ TypeOf(c, uid) # (IF i = Len(segs) THEN SharedFolderType ELSE UserFolderType)
                 \/ SharedSkip(c, segs, i + 1, uid)

\* whether update op grants perm
Grants(op, perm) ==
    \/ \E e \in Range(op.add_teams) : e.team_uid = perm.uid
    \/ \E e \in Range(op.add_users) : e.username = Lower(perm.name)

\* C26: a grantee that cannot be resolved is dropped and nothing else: the
\* call returns, each declared folder that is not skipped gets its
\* shared_folder_update, with the grants of the folder that can be resolved
\* and without the one that cannot
C26_UnresolvedDropped ==
    (/\ SharedFolderAddOver
     /\ \E perm \in AllPermissions(folders) : Unresolvable(teams, perm))
    => /\ pc = "execute"
       /\ \A j \in DOMAIN folders :
             (folders[j].path # <<>> /\ ~SharedSkip(cache, folders[j].path, 1, NoUid)) =>
                 \E i \in UpdatesOf(cache, requests, folders[j]) :
                     \A perm \in Range(folders[j].permissions) :
                        /\ Resolvable(teams, perm) => Grants(requests[i], perm)
                        /\ Unresolvable(teams, perm) => ~Grants(requests[i], perm)

\* whether the access list of shared folder sf_uid in snapshot c holds the
\* grantee of perm, a user by address or a team of tc by uid or name, with
\* the flags perm declares
InLiveAcl(c, tc, sf_uid, perm) ==
    /\ InSharedFolderCache(c, sf_uid)
    /\ LET sf == SharedFolderOf(c, sf_uid)
           tms == IF InTeamCache(tc, perm.uid) THEN {perm.uid} ELSE TeamsNamed(tc, perm.name)
       IN \/ \E e \in Range(sf.users) :
                /\ e.username = Lower(perm.name)
                /\ e.manage_users = perm.manage_users
                /\ e.manage_records = perm.manage_records
          \/ \E e \in Range(sf.teams) :
                /\ e.team_uid \in tms
                /\ e.manage_users = perm.manage_users
                /\ e.manage_records = perm.manage_records

\* C27: a shared_folder_update is emitted only for a declared folder with a
\* grantee that the live access list lacks or holds with other flags; a
\* folder whose declared grantees are all there, unchanged, gets none
C27_UpdateOnChange ==
    AfterSharedFolderAdd =>
        \A i \in DOMAIN requests :
            requests[i].command = "shared_folder_update" =>
                \E j \in DOMAIN folders :
                    /\ i \in UpdatesOf(cache, requests, folders[j])
                    /\ \E perm \in Range(folders[j].permissions) :
                          ~InLiveAcl(cache, teams, requests[i].shared_folder_uid, perm)

\* C28: a declared segment is matched to a folder of the snapshot exactly
\* when the names are equal but for the case and the folder's parent is the
\* folder the segment before it resolved to, the root for the first: a
\* declared folder whose segments all match so ends at the folder they lead
\* to and adds nothing, and one with a segment that has no match below its
\* parent ends at a folder_add of this pass, named after its last segment,
\* wherever else the snapshot holds a folder of that name
C28_FingerprintScope ==
    AfterFolderAdd =>
        \A r \in DOMAIN records : \A j \in DOMAIN records[r].folders :
            LET fol == records[r].folders[j]
                segs == fol.domain \o fol.path
                missing == MissingSegments(cache, segs, 1, NoUid)
                alone == Len(records) = 1 /\ Len(records[r].folders) = 1
            IN segs # <<>> =>
                 /\ missing = 0 =>
                       fol.uid = SharedTarget(cache, <<>>, segs, 1, NoUid)
                 /\ missing > 0 =>
                       /\ ~InFolderCache(cache, fol.uid)
                       /\ \E i \in DOMAIN requests :
                             /\ requests[i].command = "folder_add"
                             /\ requests[i].folder_uid = fol.uid
                             /\ Lower(requests[i].data.plain) = Lower(segs[Len(segs)])
                 /\ alone => Len(requests) = missing

\* the snapshot holds a folder named like the one declared segment, below
\* another parent than the root: the segment is not matched to it and a
\* folder is added
C28_Witness ==
    /\ AfterFolderAdd
    /\ Len(records) = 1 /\ Len(records[1].folders) = 1
    /\ LET segs == records[1].folders[1].domain \o records[1].folders[1].path
       IN /\ Len(segs) = 1
          /\ ChildNamed(cache, segs[1], NoUid) = NoUid
          /\ \E i \in DOMAIN cache.folder_cache :
                /\ Lower(cache.folder_cache[i].name) = Lower(segs[1])
                /\ cache.folder_cache[i].parent_uid # NoUid
          /\ Len(requests) = 1
          /\ records[1].folders[1].uid = requests[1].folder_uid

\* folder_hash as the prepare call of the current stage leaves it
IndexAfter ==
    IF stage = "folder_add"
    THEN FolderAddRecords([folder_hash |-> BuildFolderHash(cache),
                           folder_add |-> <<>>,
                           fresh |-> fresh,
                           parent_uid |-> NoUid,
                           parent_shared_folder_uid |-> NoUid,
                           parent_shared_folder_key |-> NoKey,
                           parent_type |-> RootFolderType], records, 1).w.folder_hash
    ELSE SharedFolderAddFolders(Params, PublicKeys(folders, User, directory, TRUE),
                                [folder_hash |-> BuildFolderHash(cache),
                                 requests |-> <<>>,
                                 fresh |-> fresh,
                                 raised |-> FALSE,
                                 skip_folder |-> FALSE,
                                 parent_uid |-> NoUid,
                                 parent_type |-> "",
                                 parent_key |-> NoKey], folders, 1).folder_hash

\* every uid the snapshot holds or an earlier folder_add has introduced
KnownUids ==
    {cache.folder_cache[i].uid : i \in DOMAIN cache.folder_cache}
    \cup {cache.shared_folder_cache[i].shared_folder_uid : i \in DOMAIN cache.shared_folder_cache}
    \cup {cache.record_cache[i].record_uid : i \in DOMAIN cache.record_cache}
    \cup {sent[k].op.folder_uid : k \in {n \in DOMAIN sent : sent[n].op.command = "folder_add"}}

\* C29: the folder_add operations that prepare_shared_folder_add and
\* prepare_folder_add return carry uids that the snapshot does not hold and
\* that no other folder_add of the run carries; a grant of a returned
\* shared_folder_update wraps the key the shared folder has; the index entry
\* of a folder of the snapshot stays as it was built, tier and key, to the
\* end of the pass
C29_FolderIdentity ==
    [][(pc = "prepare" /\ pc' = "execute" /\ stage \in {"shared_folder_add", "folder_add"}) =>
          LET adds == {i \in DOMAIN requests' : requests'[i].command = "folder_add"}
              updates == {i \in DOMAIN requests' : requests'[i].command = "shared_folder_update"}
          IN /\ \A i \in adds :
                   /\ requests'[i].folder_uid \notin KnownUids
                   /\ \A k \in adds : k # i => requests'[k].folder_uid # requests'[i].folder_uid
             /\ \A i \in updates :
                   \A e \in Range(requests'[i].add_users) \cup Range(requests'[i].add_teams) :
                       e.shared_folder_key.plain
                           = SharedFolderKey(cache, requests', requests'[i].shared_folder_uid)
             /\ \A d \in DOMAIN BuildFolderHash(cache) :
                   d \in DOMAIN IndexAfter /\ IndexAfter[d] = BuildFolderHash(cache)[d]]_vars

\* prepare_folder_add has added a folder in a run whose shared folder stage
\* had added one before, while another declared folder starts at a folder of
\* the snapshot
C29_Witness ==
    /\ AfterFolderAdd
    /\ \E i \in DOMAIN requests : requests[i].command = "folder_add"
    /\ \E r \in DOMAIN records : \E j \in DOMAIN records[r].folders :
          LET segs == records[r].folders[j].domain \o records[r].folders[j].path
          IN segs # <<>> /\ ChildNamed(cache, segs[1], NoUid) # NoUid
    /\ \E k \in DOMAIN sent :
          /\ sent[k].run = run /\ sent[k].stage = "shared_folder_add"
          /\ sent[k].op.command = "folder_add"

\* the components of --policy, stripped; none when the option is absent or
\* empty
PolicyComponents(kw) ==
    IF kw.policy # None /\ kw.policy[1] # <<>>
    THEN [i \in DOMAIN split(kw.policy[1]) |-> strip(split(kw.policy[1])[i])]
    ELSE <<>>

\* --policy has a component that is not empty and not a string of digits
MalformedPolicy(kw) ==
    \E i \in DOMAIN PolicyComponents(kw) :
        PolicyComponents(kw)[i] # <<>> /\ ~isdigit(PolicyComponents(kw)[i])

\* C30: password-report run with a --policy that has a non-empty component
\* which is not a string of digits ends with the error 'Invalid policy
\* format' and no report; run with a well-formed policy, or none, whose
\* requirements are all absent or not positive, it ends with the error
\* 'Password policy must be specified.'
C30_PolicyErrors ==
    report # NotRun =>
        /\ MalformedPolicy(kwargs) =>
              (report.status = "Invalid policy format" /\ report.table = <<>>)
        /\ (~MalformedPolicy(kwargs) /\ Unspecified(PolicyOf(kwargs).policy)) =>
              (report.status = "Password policy must be specified." /\ report.table = <<>>)

\* C31: execute_batch ends whatever the remote store answers: each pass of
\* the loop leaves a shorter queue, so there are no more remote execute calls
\* than the list has operations, and a call that has started returns, after
\* the refresh of the snapshot when its list is not empty
C31_Terminates ==
    /\ [][(pc = "loop" /\ queue # <<>>) => Len(queue') < Len(queue)]_vars
    /\ [](Cardinality(Executes) <= Len(requests))
    /\ (pc = "execute") ~>
           (pc = "done" /\ (requests # <<>> => trace[Len(trace)].call = "sync_down"))

\* execute_batch has returned from a list of at least three operations after
\* as many remote calls as the list has operations, none of them answered in
\* full but the last
C31_Witness ==
    /\ pc = "done" /\ Len(requests) >= 3
    /\ Cardinality(Executes) = Len(requests)
    /\ trace[Len(trace)].call = "sync_down"
    /\ \E i \in Executes : trace[i].rs.kind = "raise"
    /\ \E i \in Executes : trace[i].rs.kind = "success" /\ trace[i].rs.k < Len(trace[i].chunk)

\* C32: a record_add, a move and a shared_folder_update of the record
\* permission stage name only folders that the snapshot their stage started
\* from holds, whatever became of the folder_add operations of the run; an
\* import record whose first declared folder is not in that snapshot is added
\* with no folder_uid
C32_ExistingFolders ==
    (pc \in {"execute", "loop"} /\ stage \in {"record_add", "record_link", "record_permission"}) =>
        /\ \A i \in DOMAIN requests :
              LET q == requests[i]
              IN CASE q.command = "record_add" ->
                        q.folder_uid # NoUid => InFolderCache(cache, q.folder_uid)
                   [] q.command = "move" ->
                        /\ q.to_uid # NoUid => InFolderCache(cache, q.to_uid)
                        /\ \A m \in DOMAIN q.move :
                              q.move[m].from_uid # NoUid => InFolderCache(cache, q.move[m].from_uid)
                   [] q.command = "shared_folder_update" ->
                        /\ InFolderCache(cache, q.shared_folder_uid)
                        /\ \A m \in DOMAIN q.update_records :
                              InFolderCache(cache, q.update_records[m].shared_folder_uid)
                   [] OTHER -> FALSE
        /\ stage = "record_add" =>
              \A r \in DOMAIN records : \A i \in DOMAIN requests :
                  (requests[i].record_uid = records[r].uid
                   /\ ~InFolderCache(cache, PrimaryFolder(records[r])))
                      => requests[i].folder_uid = NoUid

\* the folder_add call of the run was lost, and a record is added with no
\* folder_uid because the folder it declares first was not created
C32_Witness ==
    /\ stage = "record_add" /\ pc = "execute"
    /\ \E i \in Executes :
          /\ trace[i].run = run /\ trace[i].stage = "folder_add"
          /\ trace[i].rs.kind \in {"raise", "fail"}
    /\ \E r \in DOMAIN records : \E i \in DOMAIN requests :
          /\ requests[i].record_uid = records[r].uid
          /\ PrimaryFolder(records[r]) # NoUid
          /\ ~InFolderCache(cache, PrimaryFolder(records[r]))
          /\ requests[i].folder_uid = NoUid

\* operation q needs the folder that operation p adds: as the parent or the
\* shared folder of the folder q adds, or as the shared folder q updates
DependsOn(q, p) ==
    /\ p.command = "folder_add"
    /\ \/ /\ q.command = "folder_add"
          /\ q.parent_uid = p.folder_uid \/ q.shared_folder_uid = p.folder_uid
       \/ q.command = "shared_folder_update" /\ q.shared_folder_uid = p.folder_uid

\* C33: in the list of prepare_shared_folder_add and in the list of
\* prepare_folder_add an operation that needs a folder added in the list
\* stands behind the folder_add of that folder, and execute_batch has
\* submitted that folder_add before it submits the operation that needs it
C33_ParentFirst ==
    /\ (pc = "execute" /\ stage \in {"shared_folder_add", "folder_add"}) =>
          \A i \in DOMAIN requests : \A k \in DOMAIN requests :
              DependsOn(requests[i], requests[k]) => k < i
    /\ \A i \in DOMAIN sent :
          /\ \A k \in DOMAIN sent :
                DependsOn(sent[i].op, sent[k].op) => \E m \in 1..(i - 1) : sent[m].op = sent[k].op
          /\ (sent[i].run = run /\ sent[i].stage = stage) =>
                \A k \in DOMAIN requests :
                    DependsOn(sent[i].op, requests[k]) =>
                        \E m \in 1..(i - 1) : sent[m].op = requests[k]

\* a folder_add and an operation that needs its folder were submitted in a
\* call whose answer held results for a part of the chunk only, and the rest
\* of the chunk was submitted again
C33_Witness ==
    /\ \E i \in DOMAIN sent : \E k \in DOMAIN sent : DependsOn(sent[i].op, sent[k].op)
    /\ \E i \in Executes :
          /\ trace[i].stage \in {"shared_folder_add", "folder_add"}
          /\ trace[i].rs.kind = "success" /\ trace[i].rs.k >= 1
          /\ trace[i].rs.k < Len(trace[i].chunk)
          /\ \E j \in Executes : j > i /\ trace[j].stage = trace[i].stage /\ trace[j].run = trace[i].run
          /\ \E a \in DOMAIN trace[i].chunk : \E b \in DOMAIN trace[i].chunk :
                DependsOn(trace[i].chunk[a], trace[i].chunk[b])

\* the type of folder uid, of snapshot c or added by list ops
TypeIn(c, ops, uid) ==
    IF InFolderCache(c, uid) THEN TypeOf(c, uid)
    ELSE ops[CHOOSE k \in DOMAIN ops :
                ops[k].command = "folder_add" /\ ops[k].folder_uid = uid].folder_type

RECURSIVE SharedOutcome(_, _, _, _, _)
\* where segments i.. of a declared shared folder lead from parent_uid
\* through the folders of snapshot c and those list ops adds: to a folder
\* that is missing, to a folder of another tier than the segment needs
\* (shared_folder for the last, user_folder for the others), or to the end
SharedOutcome(c, ops, segs, i, parent_uid) ==
    IF i > Len(segs) THEN [state |-> "resolved", uid |-> parent_uid]
    ELSE LET uid == SharedTarget(c, ops, <<segs[i]>>, 1, parent_uid)
             needed == IF i = Len(segs) THEN SharedFolderType ELSE UserFolderType
         IN IF uid = NoUid THEN [state |-> "missing", uid |-> parent_uid]
            ELSE IF TypeIn(c, ops, uid) # needed THEN [state |-> "conflict", uid |-> uid]
            ELSE SharedOutcome(c, ops, segs, i + 1, uid)

\* C34: a declared shared folder of which a segment matches a folder of the
\* snapshot of another tier than the segment needs adds no operation: nothing
\* is created below the folder it stops at and that folder gets no update;
\* the other declared folders are walked to their end, or to a folder this
\* pass created with another tier, and those that reach their end get their
\* shared_folder_update
C34_ConflictSkip ==
    AfterSharedFolderAdd =>
        \A j \in DOMAIN folders :
            LET path == folders[j].path
                snap == SharedOutcome(cache, <<>>, path, 1, NoUid)
                fin == SharedOutcome(cache, requests, path, 1, NoUid)
            IN path # <<>> =>
                 /\ snap.state = "conflict" =>
                       /\ Len(folders) = 1 => requests = <<>>
                       /\ \A i \in DOMAIN requests :
                             /\ (requests[i].command = "shared_folder_update"
                                 /\ TypeOf(cache, snap.uid) # SharedFolderType)
                                    => requests[i].shared_folder_uid # snap.uid
                             /\ (requests[i].command = "folder_add"
                                 /\ TypeOf(cache, snap.uid) # UserFolderType)
                                    => requests[i].parent_uid # snap.uid
                 /\ snap.state # "conflict" =>
                       /\ fin.state # "missing"
                       /\ fin.state = "conflict" => ~InFolderCache(cache, fin.uid)
                       /\ fin.state = "resolved" =>
                             \E i \in DOMAIN requests :
                                 /\ requests[i].command = "shared_folder_update"
                                 /\ requests[i].shared_folder_uid = fin.uid

\* the first of two declared folders stops at a folder of the snapshot that
\* is no user_folder, the second is created with its update
C34_Witness ==
    /\ AfterSharedFolderAdd
    /\ Len(folders) = 2
    /\ Len(folders[1].path) > 1
    /\ SharedOutcome(cache, <<>>, folders[1].path, 1, NoUid).state = "conflict"
    /\ SharedOutcome(cache, <<>>, folders[2].path, 1, NoUid).state = "missing"
    /\ Len(requests) = 2
    /\ requests[1].command = "folder_add" /\ requests[2].command = "shared_folder_update"

\* the type of the folder a folder_add of list ops names as its parent: the
\* folder of parent_uid, or else of shared_folder_uid, or else the root
ParentTypeOf(c, ops, op) ==
    LET parent == IF op.parent_uid # NoUid THEN op.parent_uid ELSE op.shared_folder_uid
    IN IF parent = NoUid THEN RootFolderType ELSE TypeIn(c, ops, parent)

\* C35: in the list of either folder stage a folder_add of type user_folder
\* or shared_folder names the root or a user_folder as its parent, and one of
\* type shared_folder_folder a shared_folder or a shared_folder_folder, so no
\* shared folder is created inside another
C35_TierHierarchy ==
    (pc = "execute" /\ stage \in {"shared_folder_add", "folder_add"}) =>
        \A i \in DOMAIN requests :
            requests[i].command = "folder_add" =>
                LET parent_type == ParentTypeOf(cache, requests, requests[i])
                IN IF requests[i].folder_type \in {UserFolderType, SharedFolderType}
                   THEN parent_type \in {RootFolderType, UserFolderType}
                   ELSE parent_type \in {SharedFolderType, SharedFolderFolderType}

RECURSIVE ChainOf(_, _)
\* the names from the root down to folder uid of snapshot c
ChainOf(c, uid) ==
    IF uid = NoUid \/ ~InFolderCache(c, uid) THEN <<>>
    ELSE ChainOf(c, FolderOf(c, uid).parent_uid) \o <<FolderOf(c, uid).name>>

\* the exported folder of the run, or NoUid before the export
Exported ==
    IF \E k \in DOMAIN trace : trace[k].call = "get_import_folder"
    THEN trace[CHOOSE k \in DOMAIN trace : trace[k].call = "get_import_folder"].folder_uid
    ELSE NoUid

\* C36: for an exported folder that is a shared folder or lies below one,
\* get_import_folder gives as domain the names from the root down to the
\* shared folder and as path the names below it; prepare_folder_add of that
\* folder against the same snapshot sets its uid to the exported folder's
\* and emits no folder_add
C36_RoundTrip ==
    (Exported # NoUid /\ FolderOf(cache, Exported).type # UserFolderType) =>
        LET f == FolderOf(cache, Exported)
            domain == ChainOf(cache, OwnerUid(f))
            path == SubSeq(ChainOf(cache, Exported), Len(domain) + 1,
                           Len(ChainOf(cache, Exported)))
            fol == records[1].folders[1]
        IN /\ fol.domain = domain /\ fol.path = path
           /\ (stage = "folder_add" /\ pc = "execute") =>
                 fol.uid = Exported /\ requests = <<>>

\* C37: every request of thycotic_search, thycotic_entity and thycotic_get
\* carries the access token of the session, not expired when the request is
\* sent (last_login + expires_in >= now); and a call that finds the token
\* expired and goes on to its request has replaced access_token,
\* refresh_token, expires_in and last_login first
C37_FreshToken ==
    /\ [](\A k \in DOMAIN trace :
             trace[k].call = "requests.get" =>
                 /\ trace[k].token = trace[k].auth.access_token
                 /\ trace[k].auth.last_login + trace[k].auth.expires_in >= trace[k].now)
    /\ [][(pc = "idle" /\ pc' = "get" /\ auth.last_login + auth.expires_in < clock) =>
             /\ auth'.last_login = clock
             /\ auth'.access_token # auth.access_token
             /\ headers' = auth'.access_token]_vars

====
